---------------------------- MODULE Spec2Model ----------------------------
(***************************************************************************)
(* A model of github.com/containerssh/http.                                *)
(*                                                                         *)
(* Part 1 (specifications Spec, FairSpec): the lifecycle of one server     *)
(* instance,                                                               *)
(* server.RunWithLifecycle of server_impl.go, run by up to MaxCalls calls  *)
(* that may overlap in any way.  Every call has its own lifecycle context, *)
(* its own native goHttp.Server, listener, serverFinished channel and      *)
(* watcher goroutine; the calls share the instance's s.lock and s.srv.     *)
(*                                                                         *)
(* Part 2 (specification HandlerSpec): the simplified handler adapter,     *)
(* handler.ServeHTTP of server.go, serving one request after another.      *)
(*                                                                         *)
(* Part 3 (specifications ClientConfigSpec, ServerConfigSpec, ConfigSpec):  *)
(* the TLS settings, Validate of the client and of the server              *)
(* configuration, NewClient and NewServer.                                 *)
(*                                                                         *)
(* Part 4 (specification RequestSpec): client.request of client_impl.go,   *)
(* one call of Post after another against servers that answer, redirect    *)
(* or fail.                                                                *)
(*                                                                         *)
(* Part 5 (specification ListSpec): the ECDHCurveList and CipherSuiteList  *)
(* of a configuration file, decoded from a sequence and from one string.   *)
(***************************************************************************)
EXTENDS Naturals, Integers, Sequences, FiniteSets, TLC

\* Number of RunWithLifecycle calls made on the one server instance.
MaxCalls == 2

Calls == 1..MaxCalls

\* s.srv == nil, and s.lock not held.
NoSrv == 0
Unlocked == 0

VARIABLES
    \* ---- server instance (server_impl.go:16-24)
    lock,            \* s.lock: Unlocked, or the call whose goroutine locked it
    srv,             \* s.srv: NoSrv, or c for the goHttp.Server call c created
    \* ---- one RunWithLifecycle call each
    pc,              \* position of call c in RunWithLifecycle
    ln,              \* ln[c]: the listener call c bound is open
    inShutdown,      \* inShutdown[c]: Shutdown was called on call c's goHttp.Server
    err,             \* err[c]: what Serve/ServeTLS or net.Listen returned to call c
    ret,             \* ret[c]: what RunWithLifecycle returned
    running,         \* running[c]: number of lifecycle.Running() notifications
    ctxDone,         \* ctxDone[c]: lifecycle.Context() of call c is cancelled
    serverFinished,  \* serverFinished[c]: items in the channel (capacity 1)
    \* ---- the watcher goroutine of each call (server_impl.go:57-70)
    wpc,             \* position of the watcher
    wsrv,            \* the srv the watcher read under the lock
    wout,            \* how the watcher ended
    \* ---- simplified handler adapter (server.go:73-106)
    requestHandler,  \* h.requestHandler: which RequestHandler is installed
    hpc,             \* "idle", "handling" (inside OnRequest), "responded"
    request,         \* the request being served
    response,        \* the serverResponse handed to the handler
    decodeErr,       \* what the last request.Decode returned
    handlerErr,      \* what OnRequest returned
    ops,             \* number of calls the handler made on request/response
    lastStatus,      \* the last status the handler set (200 when none)
    lastBody,        \* the last body the handler set (nil when none)
    writer,          \* the goHttp.ResponseWriter
    logged,          \* what the adapter reported to the logger
    \* ---- a ClientConfiguration and the client made from it
    ccfg,            \* the caller's ClientConfiguration
    cverr,           \* what the last ccfg.Validate() returned
    cvalidations,    \* number of Validate calls made on ccfg
    cclient,         \* what NewClient(ccfg, logger) returned
    chist,           \* the Validate calls made on ccfg, in order
    \* ---- a ServerConfiguration and the server made from it
    scfg,            \* the caller's ServerConfiguration
    sverr,           \* what the last scfg.Validate() returned
    svalidations,    \* number of Validate calls made on scfg
    sserver,         \* what NewServer(name, scfg, handler, logger) returned
    sconn,           \* the last connection made to the running server
    shist,           \* the Validate calls made on scfg, in order
    \* ---- client.request (client_impl.go:128-171)
    allowRedirects,  \* c.config.AllowRedirects
    ppc,             \* "idle", "waiting" (inside httpClient.Do), "returned"
    dispatched,      \* the requests sent to servers by this call, in order
    presp,           \* the response received last
    pret,            \* what request returned: status code and error
    pdest,           \* the caller's responseBody
    pdecoded,        \* decoder.Decode(responseBody) was called
    plog,            \* the message codes logged by this call
    \* ---- ECDHCurveList and CipherSuiteList read from a configuration file
    lkind,           \* "curves" or "ciphers"
    lnames,          \* the names the file lists
    lfromString,     \* the list decoded from the names as a colon-joined string
    lfromSequence    \* the list decoded from the names as a sequence

lifecycleVars == <<lock, srv, pc, ln, inShutdown, err, ret, running, ctxDone,
                   serverFinished, wpc, wsrv, wout>>
handlerVars == <<requestHandler, hpc, request, response, decodeErr, handlerErr, ops, lastStatus,
                 lastBody, writer, logged>>
clientConfigVars == <<ccfg, cverr, cvalidations, cclient, chist>>
serverConfigVars == <<scfg, sverr, svalidations, sserver, sconn, shist>>
requestVars == <<allowRedirects, ppc, dispatched, presp, pret, pdest, pdecoded,
                 plog>>
listVars == <<lkind, lnames, lfromString, lfromSequence>>
vars == <<lock, srv, pc, ln, inShutdown, err, ret, running, ctxDone,
          serverFinished, wpc, wsrv, wout, requestHandler, hpc, request,
          response, decodeErr, handlerErr, ops, lastStatus, lastBody, writer,
          logged, ccfg, cverr, cvalidations, cclient, chist, scfg, sverr,
          svalidations, sserver, sconn, shist, allowRedirects, ppc, dispatched,
          presp, pret, pdest, pdecoded, plog, lkind, lnames, lfromString,
          lfromSequence>>

\* All variables but those of one part.
notLifecycle ==
    <<handlerVars, clientConfigVars, serverConfigVars, requestVars, listVars>>
notHandler ==
    <<lifecycleVars, clientConfigVars, serverConfigVars, requestVars, listVars>>
notClientConfig ==
    <<lifecycleVars, handlerVars, serverConfigVars, requestVars, listVars>>
notServerConfig ==
    <<lifecycleVars, handlerVars, clientConfigVars, requestVars, listVars>>
notRequest ==
    <<lifecycleVars, handlerVars, clientConfigVars, serverConfigVars, listVars>>
notList ==
    <<lifecycleVars, handlerVars, clientConfigVars, serverConfigVars,
      requestVars>>

-----------------------------------------------------------------------------
(***************************************************************************)
(* Part 1: server.RunWithLifecycle                                         *)
(***************************************************************************)

\* goHttp.ErrServerClosed and the other errors a call can see.
ErrServerClosed == "ErrServerClosed"
ErrAlreadyRunning == "server is already running"
ErrListen == "listen error"
ErrServe == "serve error"
Nil == "nil"
Pending == "pending"

InitLifecycle ==
    /\ lock = Unlocked
    /\ srv = NoSrv
    /\ pc = [c \in Calls |-> "idle"]
    /\ ln = [c \in Calls |-> FALSE]
    /\ inShutdown = [c \in Calls |-> FALSE]
    /\ err = [c \in Calls |-> Nil]
    /\ ret = [c \in Calls |-> Pending]
    /\ running = [c \in Calls |-> 0]
    /\ ctxDone = [c \in Calls |-> FALSE]
    /\ serverFinished = [c \in Calls |-> 0]
    /\ wpc = [c \in Calls |-> "none"]
    /\ wsrv = [c \in Calls |-> NoSrv]
    /\ wout = [c \in Calls |-> "none"]

\* A caller invokes s.RunWithLifecycle(lifecycle); the call is about to take
\* s.lock (line 31).
Call(c) ==
    /\ pc[c] = "idle"
    /\ pc' = [pc EXCEPT ![c] = "lock"]
    /\ UNCHANGED <<lock, srv, ln, inShutdown, err, ret, running, ctxDone,
                   serverFinished, wpc, wsrv, wout>>

\* The lifecycle's context is cancelled (lifecycle.Stop by the supervisor).  It
\* can happen at any time, also before the call has got anywhere.
Cancel(c) ==
    /\ ~ctxDone[c]
    /\ ctxDone' = [ctxDone EXCEPT ![c] = TRUE]
    /\ UNCHANGED <<lock, srv, pc, ln, inShutdown, err, ret, running,
                   serverFinished, wpc, wsrv, wout>>

\* Lines 31-34: s.lock.Lock(); if s.srv != nil, return the error.  The return
\* on line 33 has no Unlock before it and no deferred function is registered
\* yet, so the mutex stays locked.
RunRejected(c) ==
    /\ lock' = c
    /\ ret' = [ret EXCEPT ![c] = ErrAlreadyRunning]
    /\ pc' = [pc EXCEPT ![c] = "done"]
    /\ UNCHANGED <<srv, ln, inShutdown, err, running, ctxDone, serverFinished,
                   wpc, wsrv, wout>>

\* Lines 35-45: s.srv = &goHttp.Server{...}; the deferred function that clears
\* s.srv is registered.
RunInstall(c) ==
    /\ lock' = c
    /\ srv' = c
    /\ pc' = [pc EXCEPT ![c] = "listen"]
    /\ UNCHANGED <<ln, inShutdown, err, ret, running, ctxDone, serverFinished,
                   wpc, wsrv, wout>>

\* RunLock without the test of s.srv on line 32.
RunLockUnchecked(c) ==
    /\ pc[c] = "lock"
    /\ lock = Unlocked
    /\ RunInstall(c)

\* Lines 31-45.
RunLock(c) ==
    /\ pc[c] = "lock"
    /\ lock = Unlocked
    /\ IF srv # NoSrv THEN RunRejected(c) ELSE RunInstall(c)

\* Lines 48-53: net.Listen succeeds; ln.Close() is deferred.
ListenOk(c) ==
    /\ pc[c] = "listen"
    /\ ln' = [ln EXCEPT ![c] = TRUE]
    /\ pc' = [pc EXCEPT ![c] = "running"]
    /\ UNCHANGED <<lock, srv, inShutdown, err, ret, running, ctxDone,
                   serverFinished, wpc, wsrv, wout>>

\* ListenFail with lifecycle.Running() called ahead of the error check.
ListenFailNotified(c) ==
    /\ pc[c] = "listen"
    /\ err' = [err EXCEPT ![c] = ErrListen]
    /\ ret' = [ret EXCEPT ![c] = ErrListen]
    /\ running' = [running EXCEPT ![c] = @ + 1]
    /\ lock' = Unlocked
    /\ pc' = [pc EXCEPT ![c] = "deferNil"]
    /\ UNCHANGED <<srv, ln, inShutdown, ctxDone, serverFinished, wpc, wsrv, wout>>

\* Lines 48-52: net.Listen fails: s.lock.Unlock(); return err.  The deferred
\* function of lines 41-45 is still to run.
ListenFail(c) ==
    /\ pc[c] = "listen"
    /\ err' = [err EXCEPT ![c] = ErrListen]
    /\ ret' = [ret EXCEPT ![c] = ErrListen]
    /\ lock' = Unlocked
    /\ pc' = [pc EXCEPT ![c] = "deferNil"]
    /\ UNCHANGED <<srv, ln, inShutdown, running, ctxDone, serverFinished, wpc,
                   wsrv, wout>>

\* Line 54: lifecycle.Running().
Running(c) ==
    /\ pc[c] = "running"
    /\ running' = [running EXCEPT ![c] = @ + 1]
    /\ pc' = [pc EXCEPT ![c] = "unlock"]
    /\ UNCHANGED <<lock, srv, ln, inShutdown, err, ret, ctxDone, serverFinished,
                   wpc, wsrv, wout>>

\* Lines 55-70: s.lock.Unlock(); serverFinished is made; the watcher goroutine
\* is started and waits in its select.
UnlockAndWatch(c) ==
    /\ pc[c] = "unlock"
    /\ lock' = Unlocked
    /\ wpc' = [wpc EXCEPT ![c] = "select"]
    /\ pc' = [pc EXCEPT ![c] = "serve"]
    /\ UNCHANGED <<srv, ln, inShutdown, err, ret, running, ctxDone,
                   serverFinished, wsrv, wout>>

\* Lines 71-75: the call enters s.srv.Serve(ln) / s.srv.ServeTLS(ln, "", "").
ServeBegin(c) ==
    /\ pc[c] = "serve"
    /\ pc' = [pc EXCEPT ![c] = "serving"]
    /\ UNCHANGED <<lock, srv, ln, inShutdown, err, ret, running, ctxDone,
                   serverFinished, wpc, wsrv, wout>>

\* What net/http's Serve returns: ErrServerClosed once Shutdown was called on
\* the server (also when that happened before Serve was entered), and
\* otherwise, at any moment, the error that ended it (a failing Accept, or
\* ServeTLS failing to set up).
ServeResult(c, failure) ==
    IF inShutdown[c] THEN ErrServerClosed ELSE IF failure THEN ErrServe ELSE Nil

\* Lines 72/74 return: Serve closes the listener it was given on every return.
ServeEnd(c) ==
    /\ pc[c] = "serving"
    /\ \E failure \in BOOLEAN :
          /\ ServeResult(c, failure) # Nil
          /\ err' = [err EXCEPT ![c] = ServeResult(c, failure)]
    /\ ln' = [ln EXCEPT ![c] = FALSE]
    /\ pc' = [pc EXCEPT ![c] = "finished"]
    /\ UNCHANGED <<lock, srv, inShutdown, ret, running, ctxDone, serverFinished,
                   wpc, wsrv, wout>>

\* RunResult without the errors.Is(err, goHttp.ErrServerClosed) exception.
RunResultRaw(e) == e

\* Lines 77-80: the value RunWithLifecycle returns for the error of Serve.
RunResult(e) ==
    IF e # Nil /\ e # ErrServerClosed THEN e ELSE Nil

\* Lines 76-80, and the deferred ln.Close() of line 53: serverFinished <- {}
\* (capacity 1, one send per call: it never blocks), the return value is
\* fixed, the listener is closed.
SignalFinished(c) ==
    /\ pc[c] = "finished"
    /\ serverFinished[c] < 1
    /\ serverFinished' = [serverFinished EXCEPT ![c] = @ + 1]
    /\ ret' = [ret EXCEPT ![c] = RunResult(err[c])]
    /\ ln' = [ln EXCEPT ![c] = FALSE]
    /\ pc' = [pc EXCEPT ![c] = "deferNil"]
    /\ UNCHANGED <<lock, srv, inShutdown, err, running, ctxDone, wpc, wsrv, wout>>

\* DeferNil without the assignment s.srv = nil.
DeferKeepsSrv(c) ==
    /\ pc[c] = "deferNil"
    /\ lock = Unlocked
    /\ pc' = [pc EXCEPT ![c] = "done"]
    /\ UNCHANGED <<lock, srv, ln, inShutdown, err, ret, running, ctxDone,
                   serverFinished, wpc, wsrv, wout>>

\* Lines 41-45, deferred: s.lock.Lock(); s.srv = nil; s.lock.Unlock().  After
\* it RunWithLifecycle has returned.
DeferNil(c) ==
    /\ pc[c] = "deferNil"
    /\ lock = Unlocked
    /\ srv' = NoSrv
    /\ pc' = [pc EXCEPT ![c] = "done"]
    /\ UNCHANGED <<lock, ln, inShutdown, err, ret, running, ctxDone,
                   serverFinished, wpc, wsrv, wout>>

\* Line 59: the watcher's select takes <-lifecycle.Context().Done().
WatchCtx(c) ==
    /\ wpc[c] = "select"
    /\ ctxDone[c]
    /\ wpc' = [wpc EXCEPT ![c] = "lock"]
    /\ UNCHANGED <<lock, srv, pc, ln, inShutdown, err, ret, running, ctxDone,
                   serverFinished, wsrv, wout>>

\* Line 68: the watcher's select takes <-serverFinished.
WatchFinished(c) ==
    /\ wpc[c] = "select"
    /\ serverFinished[c] > 0
    /\ serverFinished' = [serverFinished EXCEPT ![c] = @ - 1]
    /\ wpc' = [wpc EXCEPT ![c] = "done"]
    /\ wout' = [wout EXCEPT ![c] = "finished"]
    /\ UNCHANGED <<lock, srv, pc, ln, inShutdown, err, ret, running, ctxDone,
                   wsrv>>

\* Lines 61-64: no server is bound: unlock and return.
WatchNoop(c) ==
    /\ wpc' = [wpc EXCEPT ![c] = "done"]
    /\ wout' = [wout EXCEPT ![c] = "noop"]
    /\ UNCHANGED <<lock, srv, pc, ln, inShutdown, err, ret, running, ctxDone,
                   serverFinished, wsrv>>

\* Lines 65-66: srv := s.srv; unlock.
WatchTake(c) ==
    /\ wsrv' = [wsrv EXCEPT ![c] = srv]
    /\ wpc' = [wpc EXCEPT ![c] = "shutdown"]
    /\ UNCHANGED <<lock, srv, pc, ln, inShutdown, err, ret, running, ctxDone,
                   serverFinished, wout>>

\* WatchLock reading s.srv without taking s.lock.
WatchUnlocked(c) ==
    /\ wpc[c] = "lock"
    /\ IF srv = NoSrv THEN WatchNoop(c) ELSE WatchTake(c)

\* WatchLock without the test of s.srv on line 61.
WatchLockUnchecked(c) ==
    /\ wpc[c] = "lock"
    /\ lock = Unlocked
    /\ WatchTake(c)

\* Lines 60-66: s.lock.Lock() ... s.lock.Unlock().
WatchLock(c) ==
    /\ wpc[c] = "lock"
    /\ lock = Unlocked
    /\ IF srv = NoSrv THEN WatchNoop(c) ELSE WatchTake(c)

\* Line 67, entering srv.Shutdown(lifecycle.ShutdownContext()): the native
\* server is marked as shutting down and its listeners are closed.
ShutdownBegin(c) ==
    /\ wpc[c] = "shutdown"
    /\ inShutdown' = [inShutdown EXCEPT ![wsrv[c]] = TRUE]
    /\ ln' = [ln EXCEPT ![wsrv[c]] = IF pc[wsrv[c]] = "serving" THEN FALSE ELSE @]
    /\ wpc' = [wpc EXCEPT ![c] = "draining"]
    /\ UNCHANGED <<lock, srv, pc, err, ret, running, ctxDone, serverFinished,
                   wsrv, wout>>

\* Line 67, srv.Shutdown returns: the connections have drained, or the
\* shutdown context's deadline has passed; the result is dropped (_ =).
ShutdownEnd(c) ==
    /\ wpc[c] = "draining"
    /\ \E deadlineExceeded \in BOOLEAN :
          wout' = [wout EXCEPT ![c] =
                      IF deadlineExceeded THEN "shutdownDeadline" ELSE "shutdown"]
    /\ wpc' = [wpc EXCEPT ![c] = "done"]
    /\ UNCHANGED <<lock, srv, pc, ln, inShutdown, err, ret, running, ctxDone,
                   serverFinished, wsrv>>

-----------------------------------------------------------------------------
(***************************************************************************)
(* Part 2: handler.ServeHTTP, the simplified handler adapter               *)
(***************************************************************************)

\* Calls a handler makes on its request and response before it returns.
MaxOps == 2

\* ---- JSON text, as a sequence of tokens <<kind, text>>.
LBrace == <<"punct", "{">>
RBrace == <<"punct", "}">>
Colon == <<"punct", ":">>
Comma == <<"punct", ",">>
Str(s) == <<"string", s>>
Lit(s) == <<"literal", s>>

\* ---- Go values given to SetBody or Post (interface{}): nil, the Response
\* and Request structs of the integration test, a map[string]string{"error":
\* ...}, and a value encoding/json has no encoding for (a channel).
NilBody == [type |-> "nil", Error |-> FALSE, Message |-> ""]
ResponseValue(e, m) == [type |-> "Response", Error |-> e, Message |-> m]
ErrorMap(m) == [type |-> "map", Error |-> FALSE, Message |-> m]
ChanValue == [type |-> "chan", Error |-> FALSE, Message |-> ""]

BoolLit(b) == IF b THEN Lit("true") ELSE Lit("false")

\* json.Marshal(v): the bytes, or an error.  Struct fields are written in
\* declaration order under their json tags ("error", "Message").
Marshal(v) ==
    CASE v.type = "nil" -> [err |-> FALSE, bytes |-> <<Lit("null")>>]
      [] v.type = "Response" ->
            [err |-> FALSE,
             bytes |-> <<LBrace, Str("error"), Colon, BoolLit(v.Error), Comma,
                         Str("Message"), Colon, Str(v.Message), RBrace>>]
      [] v.type = "map" ->
            [err |-> FALSE,
             bytes |-> <<LBrace, Str("error"), Colon, Str(v.Message), RBrace>>]
      [] v.type = "Request" ->
            [err |-> FALSE,
             bytes |-> <<LBrace, Str("Message"), Colon, Str(v.Message), RBrace>>]
      [] OTHER -> [err |-> TRUE, bytes |-> <<>>]

IsValue(t) == t[1] \in {"string", "literal"}

\* t is the text of a JSON object: { "k" : v , "k" : v ... }.
IsObject(t) ==
    /\ Len(t) >= 2
    /\ t[1] = LBrace
    /\ t[Len(t)] = RBrace
    /\ \/ Len(t) = 2
       \/ /\ (Len(t) - 1) % 4 = 0
          /\ \A i \in 0..(((Len(t) - 1) \div 4) - 1) :
                /\ t[2 + 4 * i][1] = "string"
                /\ t[3 + 4 * i] = Colon
                /\ IsValue(t[4 + 4 * i])
                /\ t[5 + 4 * i] = IF 5 + 4 * i = Len(t) THEN RBrace ELSE Comma

\* The values the object text t gives for key k, in order.
Members(t, k) ==
    SelectSeq([i \in 1..((Len(t) - 1) \div 4) |->
                  <<t[4 * i - 2][2], t[4 * i]>>],
              LAMBDA m : m[1] = k)

\* json.Unmarshal(bytes, &Request{}) for the Request struct of the integration
\* test (one string field, Message): a syntax error, a value of the wrong JSON
\* type for the struct or for the field is an error; null and unknown keys are
\* skipped; the last occurrence of a key wins.
Unmarshal(t) ==
    IF Len(t) = 1 /\ t[1] = Lit("null") THEN [err |-> FALSE, Message |-> ""]
    ELSE IF ~IsObject(t) THEN [err |-> TRUE, Message |-> ""]
    ELSE LET ms == Members(t, "Message")
             ok == \A i \in 1..Len(ms) :
                      ms[i][2][1] = "string" \/ ms[i][2] = Lit("null")
             set == SelectSeq(ms, LAMBDA m : m[2][1] = "string")
         IN  IF ~ok THEN [err |-> TRUE, Message |-> ""]
             ELSE IF Len(set) = 0 THEN [err |-> FALSE, Message |-> ""]
             ELSE [err |-> FALSE, Message |-> set[Len(set)][2][2]]

\* ---- errors an OnRequest can return.
ErrBadRequest == "&badRequestResponse"
ErrWrappedBadRequest == "wrapped &badRequestResponse"
ErrJSON == "json error"
ErrHandler == "handler error"

\* errors.Is(e, &badRequestResponse): e is that pointer, or wraps it.
IsBadRequest(e) == e \in {ErrBadRequest, ErrWrappedBadRequest}

\* fmt.Errorf("...%w", e) by a handler.
Wrap(e) == IF e = ErrBadRequest THEN ErrWrappedBadRequest ELSE e

\* ---- server.go:63-71
internalErrorResponse ==
    [statusCode |-> 500, body |-> ErrorMap("Internal Server Error")]
badRequestResponse ==
    [statusCode |-> 400, body |-> ErrorMap("Bad Request")]

\* ---- the requests: goRequest.Body as a stream that can fail to be read, and
\* its text.
TextHi == <<LBrace, Str("Message"), Colon, Str("Hi"), RBrace>>
TextHm == <<LBrace, Str("Message"), Colon, Str("Hm..."), RBrace>>
TextExtra ==
    <<LBrace, Str("Message"), Colon, Str("Hi"), Comma, Str("x"), Colon,
      Str("y"), RBrace>>
TextTruncated == <<LBrace, Str("Message"), Colon>>
TextWrongType == <<LBrace, Str("Message"), Colon, Lit("true"), RBrace>>
TextEmpty == <<>>

Requests ==
    [readable : {TRUE}, read : {FALSE},
     text : {TextHi, TextHm, TextExtra, TextTruncated, TextWrongType, TextEmpty}]
    \cup [readable : {FALSE}, read : {FALSE}, text : {TextHi}]

\* Status codes and bodies the generic handler sets.
Statuses == {200, 400, 404}
Bodies ==
    {NilBody, ResponseValue(FALSE, "Hello world!"), ErrorMap("no"), ChanValue}

\* ioutil.ReadAll(i.request.Body): the text, once; nothing is left of a body
\* that was read before.
ReadAll(req) == IF req.read THEN TextEmpty ELSE req.text

\* internalRequest.Decode (server.go:113-119): ioutil.ReadAll fails ->
\* &badRequestResponse; otherwise whatever json.Unmarshal returns.
Decode(req) ==
    IF ~req.readable THEN ErrBadRequest
    ELSE IF Unmarshal(ReadAll(req)).err THEN ErrJSON
    ELSE Nil

\* ---- goHttp.ResponseWriter.  WriteHeader fixes the status and the header
\* set sent with it; a later change of Header() is not sent.  The first Write
\* of a response with no Content-Type among the sent headers makes net/http
\* add the sniffed type.
NewWriter ==
    [wroteHeader |-> FALSE, status |-> 0, header |-> {}, sent |-> {},
     body |-> <<>>, failed |-> FALSE]

WriteHeader(w, code) ==
    IF w.wroteHeader THEN w
    ELSE [w EXCEPT !.wroteHeader = TRUE, !.status = code, !.sent = w.header]

HeaderAdd(w, k, v) == [w EXCEPT !.header = @ \cup {<<k, v>>}]

HasHeader(hs, k) == \E h \in hs : h[1] = k

Write(w, bytes, ok) ==
    LET w1 == WriteHeader(w, 200)
        w2 == IF HasHeader(w1.sent, "Content-Type") \/ Len(bytes) = 0 \/ w1.body # <<>>
              THEN w1
              ELSE [w1 EXCEPT !.sent = @ \cup {<<"Content-Type", "text/plain; charset=utf-8">>}]
    IN  IF ok THEN [w2 EXCEPT !.body = @ \o bytes]
        ELSE [w2 EXCEPT !.failed = TRUE]

\* ---- handler.ServeHTTP
\* SelectResponse with the else branch of lines 87-90 lost: an error that is
\* not the bad-request signal leaves the handler's response in place.
SelectResponseKeepsHandlers(resp, e) ==
    IF IsBadRequest(e) THEN badRequestResponse ELSE resp

\* server.go:78-91: the response after OnRequest returned e.
SelectResponse(resp, e) ==
    IF e = Nil THEN resp
    ELSE IF IsBadRequest(e) THEN badRequestResponse
    ELSE internalErrorResponse

\* server.go:88: the Warningf for a handler error.
HandlerLog(e) ==
    IF e # Nil /\ ~IsBadRequest(e) THEN {"warning"} ELSE {}

\* EncodeResponse without the fallback of lines 95-99: a body that cannot be
\* encoded leaves the handler's status with no bytes.
EncodeResponseNoFallback(resp) ==
    LET m == Marshal(resp.body)
    IN  [response |-> resp, bytes |-> m.bytes,
         log |-> IF m.err THEN {"error"} ELSE {}]

\* server.go:92-100: the response and the bytes after json.Marshal.
EncodeResponse(resp) ==
    LET m == Marshal(resp.body)
    IN  IF m.err
        THEN [response |-> internalErrorResponse,
              bytes |-> Marshal(internalErrorResponse.body).bytes,
              log |-> {"error"}]
        ELSE [response |-> resp, bytes |-> m.bytes, log |-> {}]

\* WriteResponse without the WriteHeader call of line 101: the first Write
\* sends status 200.
WriteResponseNoStatus(w, resp, bytes, ok) ==
    Write(HeaderAdd(w, "Content-Type", "application/json"), bytes, ok)

\* server.go:101-105: status line, header, body.
WriteResponse(w, resp, bytes, ok) ==
    Write(HeaderAdd(WriteHeader(w, resp.statusCode),
                    "Content-Type", "application/json"),
          bytes, ok)

InitHandler ==
    /\ requestHandler \in {"greeting", "generic"}
    /\ hpc = "idle"
    /\ request = [readable |-> TRUE, read |-> FALSE, text |-> TextEmpty]
    /\ response = [statusCode |-> 200, body |-> NilBody]
    /\ decodeErr = Nil
    /\ handlerErr = Nil
    /\ ops = 0
    /\ lastStatus = 200
    /\ lastBody = NilBody
    /\ writer = NewWriter
    /\ logged = {}

\* server.go:74-83: a request arrives; response is {200, nil}; OnRequest is
\* called.
ServeHTTPBegin(req) ==
    /\ hpc \in {"idle", "responded"}
    /\ hpc' = "handling"
    /\ request' = req
    /\ response' = [statusCode |-> 200, body |-> NilBody]
    /\ decodeErr' = Nil
    /\ handlerErr' = Nil
    /\ ops' = 0
    /\ lastStatus' = 200
    /\ lastBody' = NilBody
    /\ writer' = NewWriter
    /\ logged' = {}
    /\ UNCHANGED requestHandler

\* server.go:84-105: OnRequest has returned e, having left the response resp.
ServeHTTPEnd(resp, e, ok) ==
    LET enc == EncodeResponse(SelectResponse(resp, e))
    IN  /\ hpc' = "responded"
        /\ handlerErr' = e
        /\ response' = enc.response
        /\ writer' = WriteResponse(writer, enc.response, enc.bytes, ok)
        /\ logged' = HandlerLog(e) \cup enc.log
                        \cup (IF ok THEN {} ELSE {"info"})

\* serverResponse.SetStatus (server.go:50-52), called by the handler.
SetStatus(statusCode) ==
    /\ hpc = "handling"
    /\ requestHandler = "generic"
    /\ ops < MaxOps
    /\ response' = [response EXCEPT !.statusCode = statusCode]
    /\ lastStatus' = statusCode
    /\ ops' = ops + 1
    /\ UNCHANGED <<requestHandler, hpc, request, decodeErr, handlerErr, lastBody,
                   writer, logged>>

\* serverResponse.SetBody (server.go:54-56), called by the handler.
SetBody(body) ==
    /\ hpc = "handling"
    /\ requestHandler = "generic"
    /\ ops < MaxOps
    /\ response' = [response EXCEPT !.body = body]
    /\ lastBody' = body
    /\ ops' = ops + 1
    /\ UNCHANGED <<requestHandler, hpc, request, decodeErr, handlerErr,
                   lastStatus, writer, logged>>

\* internalRequest.Decode, called by the handler: the body that was read is
\* consumed.
DecodeRequest ==
    /\ hpc = "handling"
    /\ requestHandler = "generic"
    /\ ops < MaxOps
    /\ decodeErr' = Decode(request)
    /\ request' = [request EXCEPT !.read = request.readable]
    /\ ops' = ops + 1
    /\ UNCHANGED <<requestHandler, hpc, response, handlerErr, lastStatus,
                   lastBody, writer, logged>>

\* What a handler can return: nil, an error of its own, the error Decode gave
\* it, or that error wrapped.
Returnable ==
    {Nil, ErrHandler}
        \cup (IF decodeErr # Nil THEN {decodeErr, Wrap(decodeErr)} ELSE {})

\* Any RequestHandler returns from OnRequest.
OnRequestReturn(e, ok) ==
    /\ hpc = "handling"
    /\ requestHandler = "generic"
    /\ e \in Returnable
    /\ ServeHTTPEnd(response, e, ok)
    /\ UNCHANGED <<requestHandler, request, decodeErr, ops, lastStatus, lastBody>>

\* The response the handler of the integration test leaves
\* (integration_test.go:42-53).
GreetingResponse(resp, message) ==
    IF message = "Hi"
    THEN [resp EXCEPT !.body = ResponseValue(FALSE, "Hello world!")]
    ELSE [resp EXCEPT !.statusCode = 400,
                      !.body = ResponseValue(TRUE, "Be nice and greet me!")]

\* handler.OnRequest of the integration test (integration_test.go:37-55), from
\* its call to the end of ServeHTTP.
GreetingOnRequest(ok) ==
    /\ hpc = "handling"
    /\ requestHandler = "greeting"
    /\ LET e == Decode(request)
           resp == IF e # Nil THEN response
                   ELSE GreetingResponse(response,
                                         Unmarshal(ReadAll(request)).Message)
       IN  /\ decodeErr' = e
           /\ request' = [request EXCEPT !.read = request.readable]
           /\ lastStatus' = resp.statusCode
           /\ lastBody' = resp.body
           /\ ops' = IF e # Nil THEN 1 ELSE 2
           /\ ServeHTTPEnd(resp, e, ok)
    /\ UNCHANGED requestHandler

-----------------------------------------------------------------------------
(***************************************************************************)
(* Part 3: the TLS settings and the validation of the client and server    *)
(* configuration (ClientConfiguration, ServerConfiguration, NewClient,     *)
(* NewServer)                                                              *)
(***************************************************************************)

\* Calls of Validate made on one configuration.
MaxValidate == 2

\* ---- a URL, as its scheme, the "://" after it and the rest.
URLOf(scheme) == <<scheme, "://", "127.0.0.1:8080/">>

\* url.ParseRequestURI(c.URL) succeeds: the text is an absolute URL (or a
\* path, which no URL here is).  The empty text and a host:port with no scheme
\* are rejected.
ParseRequestURI(u) ==
    /\ Len(u) >= 3
    /\ u[1] \in {"http", "https", "HTTPS"}
    /\ u[2] = "://"

\* strings.HasPrefix(c.URL, "https://"): a comparison of bytes.
HasPrefixHTTPS(u) == Len(u) >= 2 /\ u[1] = "https" /\ u[2] = "://"

\* ---- the text of a certificate, key or CA field: empty, blank, PEM text
\* ("-----BEGIN ...") or the name of a file that holds it or does not exist.
NoPem == [kind |-> "empty", content |-> ""]
BlankPem == [kind |-> "blank", content |-> ""]
InlinePem(x) == [kind |-> "inline", content |-> x]
FilePem(x) == [kind |-> "file", content |-> x]
MissingFile == [kind |-> "nofile", content |-> ""]

\* spec == "" and strings.TrimSpace(spec) == "".
IsEmpty(spec) == spec.kind = "empty"
TrimIsEmpty(spec) == spec.kind \in {"empty", "blank"}

\* loadPem (util.go:8-13): text starting with ----- is the PEM itself, all
\* else is a file name given to ioutil.ReadFile.
loadPem(spec) ==
    IF spec.kind \in {"inline", "file"}
    THEN [err |-> FALSE, bytes |-> spec.content]
    ELSE [err |-> TRUE, bytes |-> ""]

\* What PEM bytes hold: certificates "cert1" (with private key "key1"),
\* CA certificates "ca1", "ca2", the key "key2" of some other certificate, and
\* text with no PEM block in it.
Certificates == {"cert1", "ca1", "ca2"}

\* A *x509.CertPool is nil or the set of certificates in it; a
\* *tls.Certificate is nil or the pair X509KeyPair made.
NilPool == [nil |-> TRUE, certs |-> {}]
NewCertPool == [nil |-> FALSE, certs |-> {}]
SystemCertPool == [nil |-> FALSE, certs |-> {"system roots"}]
NilCert == <<>>

\* tls.X509KeyPair(certPEMBlock, keyPEMBlock).
X509KeyPair(certBytes, keyBytes) ==
    IF certBytes = "cert1" /\ keyBytes = "key1"
    THEN [err |-> FALSE, cert |-> <<certBytes, keyBytes>>]
    ELSE [err |-> TRUE, cert |-> NilCert]

\* pool.AppendCertsFromPEM(bytes): ok reports whether a certificate was found.
AppendCertsFromPEM(pool, bytes) ==
    IF bytes \in Certificates
    THEN [ok |-> TRUE, pool |-> [pool EXCEPT !.certs = @ \cup {bytes}]]
    ELSE [ok |-> FALSE, pool |-> pool]

\* ---- TLSVersion (part_002:14-43)
TLSVersion12 == "1.2"
TLSVersion13 == "1.3"
VersionTLS12 == "tls.VersionTLS12"
VersionTLS13 == "tls.VersionTLS13"
Panic == "panic"

TLSVersionValidate(t) == t \in {TLSVersion13, TLSVersion12}

getTLSVersion(t) ==
    CASE t = TLSVersion13 -> VersionTLS12
      [] t = TLSVersion12 -> VersionTLS12
      [] OTHER -> Panic

\* ---- ECDHCurve, ECDHCurveList (part_002:45-103, 143-149)
curveToID ==
    ("x25519" :> "tls.X25519") @@ ("X25519" :> "tls.X25519")
    @@ ("secp256r1" :> "tls.CurveP256") @@ ("prime256v1" :> "tls.CurveP256")
    @@ ("secp384r1" :> "tls.CurveP384") @@ ("secp521r1" :> "tls.CurveP521")

ECDHCurveValidate(c) ==
    c \in {"x25519", "X25519", "secp256r1", "prime256v1", "secp384r1",
           "secp521r1"}

\* ECDHCurveList.Validate without the test of the length on line 55.
ECDHCurveListValidateEntriesOnly(l) ==
    \A i \in 1..Len(l) : ECDHCurveValidate(l[i])

\* ECDHCurveList.Validate: every entry, then the length.
ECDHCurveListValidate(l) ==
    /\ \A i \in 1..Len(l) : ECDHCurveValidate(l[i])
    /\ Len(l) # 0

\* getCurveID with a table that lacks the alternative spellings.
getCurveIDNoAlias(c) ==
    IF c \in DOMAIN curveToID \ {"X25519", "prime256v1"}
    THEN curveToID[c]
    ELSE Panic

getCurveID(c) == IF c \in DOMAIN curveToID THEN curveToID[c] ELSE Panic

\* ---- CipherSuite, CipherSuiteList (part_002:151-279)
stringToCipherSuite ==
    ("TLS_AES_128_GCM_SHA256" :> "tls.TLS_AES_128_GCM_SHA256")
    @@ ("TLS_AES_256_GCM_SHA384" :> "tls.TLS_AES_256_GCM_SHA384")
    @@ ("TLS_CHACHA20_POLY1305_SHA256" :> "tls.TLS_CHACHA20_POLY1305_SHA256")
    @@ ("TLS_ECDHE_ECDSA_WITH_AES_128_GCM_SHA256"
            :> "tls.TLS_ECDHE_ECDSA_WITH_AES_128_GCM_SHA256")
    @@ ("TLS_ECDHE_RSA_WITH_AES_128_GCM_SHA256"
            :> "tls.TLS_ECDHE_RSA_WITH_AES_128_GCM_SHA256")
    @@ ("TLS_ECDHE_ECDSA_WITH_AES_256_GCM_SHA384"
            :> "tls.TLS_ECDHE_ECDSA_WITH_AES_256_GCM_SHA384")
    @@ ("TLS_ECDHE_RSA_WITH_AES_256_GCM_SHA384"
            :> "tls.TLS_ECDHE_RSA_WITH_AES_256_GCM_SHA384")
    @@ ("TLS_ECDHE_ECDSA_WITH_CHACHA20_POLY1305"
            :> "tls.TLS_ECDHE_ECDSA_WITH_CHACHA20_POLY1305")
    @@ ("TLS_ECDHE_RSA_WITH_CHACHA20_POLY1305"
            :> "tls.TLS_ECDHE_RSA_WITH_CHACHA20_POLY1305")
    @@ ("ECDHE-ECDSA-AES128-GCM-SHA256"
            :> "tls.TLS_ECDHE_ECDSA_WITH_AES_128_GCM_SHA256")
    @@ ("ECDHE-RSA-AES128-GCM-SHA256"
            :> "tls.TLS_ECDHE_RSA_WITH_AES_128_GCM_SHA256")
    @@ ("ECDHE-ECDSA-AES256-GCM-SHA384"
            :> "tls.TLS_ECDHE_ECDSA_WITH_AES_256_GCM_SHA384")
    @@ ("ECDHE-RSA-AES256-GCM-SHA384"
            :> "tls.TLS_ECDHE_RSA_WITH_AES_256_GCM_SHA384")
    @@ ("ECDHE-ECDSA-CHACHA20-POLY1305"
            :> "tls.TLS_ECDHE_ECDSA_WITH_CHACHA20_POLY1305")
    @@ ("ECDHE-RSA-CHACHA20-POLY1305"
            :> "tls.TLS_ECDHE_RSA_WITH_CHACHA20_POLY1305")
    @@ ("TLS_ECDHE_ECDSA_AES_128_GCM_SHA256"
            :> "tls.TLS_ECDHE_ECDSA_WITH_AES_128_GCM_SHA256")
    @@ ("TLS_ECDHE_RSA_AES_128_GCM_SHA256"
            :> "tls.TLS_ECDHE_RSA_WITH_AES_128_GCM_SHA256")
    @@ ("TLS_ECDHE_ECDSA_AES_256_GCM_SHA384"
            :> "tls.TLS_ECDHE_ECDSA_WITH_AES_256_GCM_SHA384")
    @@ ("TLS_ECDHE_RSA_AES_256_GCM_SHA384"
            :> "tls.TLS_ECDHE_RSA_WITH_AES_256_GCM_SHA384")
    @@ ("TLS_ECDHE_ECDSA_CHACHA20_POLY1305"
            :> "tls.TLS_ECDHE_ECDSA_WITH_CHACHA20_POLY1305")
    @@ ("TLS_ECDHE_RSA_CHACHA20_POLY1305"
            :> "tls.TLS_ECDHE_RSA_WITH_CHACHA20_POLY1305")

CipherSuiteValidate(c) == c \in DOMAIN stringToCipherSuite

\* CipherSuiteList.Validate: every entry, then the length.
CipherSuiteListValidate(l) ==
    /\ \A i \in 1..Len(l) : CipherSuiteValidate(l[i])
    /\ Len(l) # 0

getCipher(c) ==
    IF c \in DOMAIN stringToCipherSuite THEN stringToCipherSuite[c] ELSE Panic

\* ECDHCurveList.getList and CipherSuiteList.getList: a panic of an entry is
\* the panic of the list.
getCurveList(l) ==
    IF \E i \in 1..Len(l) : getCurveID(l[i]) = Panic
    THEN [panic |-> TRUE, ids |-> <<>>]
    ELSE [panic |-> FALSE, ids |-> [i \in 1..Len(l) |-> getCurveID(l[i])]]

getCipherList(l) ==
    IF \E i \in 1..Len(l) : getCipher(l[i]) = Panic
    THEN [panic |-> TRUE, ids |-> <<>>]
    ELSE [panic |-> FALSE, ids |-> [i \in 1..Len(l) |-> getCipher(l[i])]]

\* ---- RequestEncoding (part_002:491-515)
RequestEncodingValidate(r) == r \in {"", "JSON", "WWW-URLENCODED"}

\* ---- *tls.Config: nil, or the fields the factories set.
NilTLSConfig ==
    [nil |-> TRUE, MinVersion |-> "", CurvePreferences |-> <<>>,
     CipherSuites |-> <<>>, RootCAs |-> NilPool, Certificates |-> <<>>,
     ClientCAs |-> NilPool, ClientAuth |-> "NoClientCert"]

\* ---- ClientConfiguration (part_002:281-404)
\* c.Timeout < 100*time.Millisecond, in milliseconds.
MinTimeout == 100

\* validateCACert (part_002:383-404).  sys: x509.SystemCertPool() works.
validateCACert(c, sys) ==
    IF ~TrimIsEmpty(c.CACert)
    THEN LET pem == loadPem(c.CACert)
             a == AppendCertsFromPEM(NewCertPool, pem.bytes)
         IN  IF pem.err
             THEN [err |-> "failed to load CA certificate", cfg |-> c]
             ELSE IF ~a.ok
             THEN [err |-> "invalid CA certificate provided",
                   cfg |-> [c EXCEPT !.caCertPool = NewCertPool]]
             ELSE [err |-> Nil, cfg |-> [c EXCEPT !.caCertPool = a.pool]]
    ELSE IF HasPrefixHTTPS(c.URL)
    THEN IF sys
         THEN [err |-> Nil, cfg |-> [c EXCEPT !.caCertPool = SystemCertPool]]
         ELSE [err |-> "system certificate pool unusable",
               cfg |-> [c EXCEPT !.caCertPool = NilPool]]
    ELSE [err |-> Nil, cfg |-> c]

\* validateClientCert taking a key with no certificate for nothing to load.
validateClientCertKeyAloneIgnored(c) ==
    IF ~IsEmpty(c.ClientCert) /\ IsEmpty(c.ClientKey)
    THEN [err |-> "client certificate provided without client key", cfg |-> c]
    ELSE IF ~IsEmpty(c.ClientCert) /\ ~IsEmpty(c.ClientKey)
    THEN LET clientCert == loadPem(c.ClientCert)
             clientKey == loadPem(c.ClientKey)
             pair == X509KeyPair(clientCert.bytes, clientKey.bytes)
         IN  IF clientCert.err \/ clientKey.err
             THEN [err |-> "failed to load client certificate", cfg |-> c]
             ELSE IF pair.err
             THEN [err |-> "failed to load certificate or key", cfg |-> c]
             ELSE [err |-> Nil, cfg |-> [c EXCEPT !.cert = pair.cert]]
    ELSE [err |-> Nil, cfg |-> c]

\* validateClientCert (part_002:358-381).
validateClientCert(c) ==
    IF ~IsEmpty(c.ClientCert) /\ IsEmpty(c.ClientKey)
    THEN [err |-> "client certificate provided without client key", cfg |-> c]
    ELSE IF IsEmpty(c.ClientCert) /\ ~IsEmpty(c.ClientKey)
    THEN [err |-> "client key provided without client certificate", cfg |-> c]
    ELSE IF ~IsEmpty(c.ClientCert) /\ ~IsEmpty(c.ClientKey)
    THEN LET clientCert == loadPem(c.ClientCert)
             clientKey == loadPem(c.ClientKey)
             pair == X509KeyPair(clientCert.bytes, clientKey.bytes)
         IN  IF clientCert.err \/ clientKey.err
             THEN [err |-> "failed to load client certificate", cfg |-> c]
             ELSE IF pair.err
             THEN [err |-> "failed to load certificate or key", cfg |-> c]
             ELSE [err |-> Nil, cfg |-> [c EXCEPT !.cert = pair.cert]]
    ELSE [err |-> Nil, cfg |-> c]

\* The TLS fields of a configuration (part_002:344-352, 464-472): the first
\* that does not validate gives the error.
validateTLSFields(c) ==
    IF ~TLSVersionValidate(c.TLSVersion) THEN "invalid TLS version"
    ELSE IF ~ECDHCurveListValidate(c.ECDHCurves)
    THEN "invalid curve algorithms"
    ELSE IF ~CipherSuiteListValidate(c.CipherSuites)
    THEN "invalid cipher suites"
    ELSE Nil

\* ClientValidate with the TLS fields validated whatever the URL is.
ClientValidateAnyScheme(c, sys) ==
    LET ca == validateCACert(c, sys)
    IN  IF ~ParseRequestURI(c.URL) THEN [err |-> "invalid URL", cfg |-> c]
        ELSE IF c.Timeout < MinTimeout
        THEN [err |-> "timeout value is too low", cfg |-> c]
        ELSE IF ca.err # Nil THEN ca
        ELSE IF ~RequestEncodingValidate(c.RequestEncoding)
        THEN [err |-> "invalid request encoding", cfg |-> ca.cfg]
        ELSE IF validateTLSFields(c) # Nil
        THEN [err |-> validateTLSFields(c), cfg |-> ca.cfg]
        ELSE validateClientCert(ca.cfg)

\* ClientConfiguration.Validate (part_002:326-356): the error, and the
\* configuration as the call leaves it.
ClientValidate(c, sys) ==
    LET ca == validateCACert(c, sys)
    IN  IF ~ParseRequestURI(c.URL) THEN [err |-> "invalid URL", cfg |-> c]
        ELSE IF c.Timeout < MinTimeout
        THEN [err |-> "timeout value is too low", cfg |-> c]
        ELSE IF ca.err # Nil THEN ca
        ELSE IF ~RequestEncodingValidate(c.RequestEncoding)
        THEN [err |-> "invalid request encoding", cfg |-> ca.cfg]
        ELSE IF HasPrefixHTTPS(c.URL) /\ validateTLSFields(c) # Nil
        THEN [err |-> validateTLSFields(c), cfg |-> ca.cfg]
        ELSE validateClientCert(ca.cfg)

\* The loading work one call of ClientConfiguration.Validate does: the number
\* of its calls of loadPem (part_002:366, 370, 385) and x509.SystemCertPool
\* (part_002:395).
ClientValidateLoads(c, sys) ==
    LET ca == validateCACert(c, sys)
        caLoads == IF ~TrimIsEmpty(c.CACert) \/ HasPrefixHTTPS(c.URL)
                   THEN 1 ELSE 0
        certLoads == IF IsEmpty(c.ClientCert) \/ IsEmpty(c.ClientKey) THEN 0
                     ELSE IF loadPem(c.ClientCert).err THEN 1
                     ELSE 2
    IN  IF ~ParseRequestURI(c.URL) \/ c.Timeout < MinTimeout THEN 0
        ELSE IF \/ ca.err # Nil
                \/ ~RequestEncodingValidate(c.RequestEncoding)
                \/ HasPrefixHTTPS(c.URL) /\ validateTLSFields(c) # Nil
        THEN caLoads
        ELSE caLoads + certLoads

\* The derived fields of a configuration: the CA pool and the certificate.
ClientDerived(c) == [pool |-> c.caCertPool, cert |-> c.cert]
ServerDerived(c) == [pool |-> c.clientCAPool, cert |-> c.cert]

\* createTLSConfig (part_007:35-52): nil for a URL without the https://
\* prefix; a translation that panics makes the construction panic.
createTLSConfig(config) ==
    IF ~HasPrefixHTTPS(config.URL)
    THEN [panic |-> FALSE, tlsConfig |-> NilTLSConfig]
    ELSE IF \/ getTLSVersion(config.TLSVersion) = Panic
            \/ getCurveList(config.ECDHCurves).panic
            \/ getCipherList(config.CipherSuites).panic
    THEN [panic |-> TRUE, tlsConfig |-> NilTLSConfig]
    ELSE [panic |-> FALSE,
          tlsConfig |->
              [NilTLSConfig EXCEPT
                  !.nil = FALSE,
                  !.MinVersion = getTLSVersion(config.TLSVersion),
                  !.CurvePreferences = getCurveList(config.ECDHCurves).ids,
                  !.CipherSuites = getCipherList(config.CipherSuites).ids,
                  !.RootCAs = config.caCertPool,
                  !.Certificates = IF config.cert = NilCert THEN <<>>
                                   ELSE <<config.cert>>]]

\* No client has been constructed.
NoClient == [built |-> "none", err |-> Nil, tlsConfig |-> NilTLSConfig]

\* NewClient (part_007:11-33), given a logger: the configuration is passed by
\* value, so Validate works on the client's copy.
NewClient(config, sys) ==
    LET v == ClientValidate(config, sys)
        t == createTLSConfig(v.cfg)
    IN  IF v.err # Nil
        THEN [built |-> "error", err |-> v.err, tlsConfig |-> NilTLSConfig]
        ELSE IF t.panic
        THEN [built |-> "panic", err |-> Nil, tlsConfig |-> NilTLSConfig]
        ELSE [built |-> "ok", err |-> Nil, tlsConfig |-> t.tlsConfig]

\* The configurations a caller hands over: derived fields unset.
URLs == {URLOf("http"), URLOf("https"), URLOf("HTTPS"), <<>>}
CurveLists ==
    {<<>>, <<"x25519", "prime256v1">>, <<"secp256r1", "brainpoolP256r1">>}
CipherLists ==
    {<<>>, <<"TLS_AES_128_GCM_SHA256", "ECDHE-RSA-AES128-GCM-SHA256">>,
     <<"TLS_AES_256_GCM_SHA384", "RC4-SHA">>}
TLSVersions == {TLSVersion12, TLSVersion13, "1.1", ""}
CertAndKey ==
    {<<NoPem, NoPem>>, <<InlinePem("cert1"), InlinePem("key1")>>,
     <<InlinePem("cert1"), NoPem>>, <<NoPem, FilePem("key1")>>,
     <<FilePem("cert1"), InlinePem("key2")>>}

ClientConfigurations ==
    {[URL |-> u, AllowRedirects |-> FALSE, Timeout |-> t, CACert |-> ca,
      ClientCert |-> ck[1], ClientKey |-> ck[2], TLSVersion |-> v,
      ECDHCurves |-> cu, CipherSuites |-> ci, RequestEncoding |-> re,
      caCertPool |-> NilPool, cert |-> NilCert] :
        u \in URLs, t \in {MinTimeout - 1, 20 * MinTimeout},
        ca \in {NoPem, BlankPem, InlinePem("ca1"), InlinePem("no PEM"),
                MissingFile},
        ck \in CertAndKey, v \in TLSVersions, cu \in CurveLists,
        ci \in CipherLists, re \in {"", "XML"}}

InitClientConfig ==
    /\ ccfg \in ClientConfigurations
    /\ cverr = Pending
    /\ cvalidations = 0
    /\ cclient = NoClient
    /\ chist = <<>>

\* The caller calls config.Validate().
CallClientValidate(sys) ==
    /\ cvalidations < MaxValidate
    /\ ccfg' = ClientValidate(ccfg, sys).cfg
    /\ cverr' = ClientValidate(ccfg, sys).err
    /\ cvalidations' = cvalidations + 1
    /\ chist' = Append(chist, [err |-> ClientValidate(ccfg, sys).err,
                               loads |-> ClientValidateLoads(ccfg, sys),
                               before |-> ClientDerived(ccfg),
                               after |-> ClientDerived(ccfg')])
    /\ UNCHANGED cclient

\* The caller calls NewClient(config, logger).
CallNewClient(sys) ==
    /\ cclient.built = "none"
    /\ cclient' = NewClient(ccfg, sys)
    /\ UNCHANGED <<ccfg, cverr, cvalidations, chist>>

\* ---- ServerConfiguration (part_002:406-489)
\* net.SplitHostPort(config.Listen) succeeds: host, a colon, port.
SplitHostPort(l) == Len(l) = 3 /\ l[2] = ":"

\* ServerConfiguration.Validate (part_002:435-489): the error, and the
\* configuration as the call leaves it.
ServerValidate(c) ==
    LET pemCert == loadPem(c.Cert)
        pemKey == loadPem(c.Key)
        pair == X509KeyPair(pemCert.bytes, pemKey.bytes)
        withCert == [c EXCEPT !.cert = pair.cert]
        both == ~IsEmpty(c.Cert) /\ ~IsEmpty(c.Key)
        c1 == IF both THEN withCert ELSE c
        clientCaCert == loadPem(c.ClientCACert)
        a == AppendCertsFromPEM(NewCertPool, clientCaCert.bytes)
    IN  IF Len(c.Listen) = 0
        THEN [err |-> "no listen address provided", cfg |-> c]
        ELSE IF ~SplitHostPort(c.Listen)
        THEN [err |-> "invalid listen address provided", cfg |-> c]
        ELSE IF ~IsEmpty(c.Cert) /\ IsEmpty(c.Key)
        THEN [err |-> "certificate provided without a key", cfg |-> c]
        ELSE IF IsEmpty(c.Cert) /\ ~IsEmpty(c.Key)
        THEN [err |-> "key provided without certificate", cfg |-> c]
        ELSE IF both /\ pemCert.err
        THEN [err |-> "failed to load certificate", cfg |-> c]
        ELSE IF both /\ pemKey.err
        THEN [err |-> "failed to load key", cfg |-> c]
        ELSE IF both /\ pair.err
        THEN [err |-> "failed to load key/certificate", cfg |-> c]
        ELSE IF both /\ validateTLSFields(c) # Nil
        THEN [err |-> validateTLSFields(c), cfg |-> withCert]
        ELSE IF IsEmpty(c.ClientCACert) THEN [err |-> Nil, cfg |-> c1]
        ELSE IF clientCaCert.err \/ ~a.ok
        THEN [err |-> "failed to load client CA certificate", cfg |-> c1]
        ELSE [err |-> Nil, cfg |-> [c1 EXCEPT !.clientCAPool = a.pool]]

\* The loading work one call of ServerConfiguration.Validate does: the number
\* of its calls of loadPem (part_002:450, 454, 476).
ServerValidateLoads(c) ==
    LET both == ~IsEmpty(c.Cert) /\ ~IsEmpty(c.Key)
        pair == X509KeyPair(loadPem(c.Cert).bytes, loadPem(c.Key).bytes)
        certLoads == IF ~both THEN 0
                     ELSE IF loadPem(c.Cert).err THEN 1
                     ELSE 2
        certFails == both /\ (\/ loadPem(c.Cert).err
                              \/ loadPem(c.Key).err
                              \/ pair.err
                              \/ validateTLSFields(c) # Nil)
    IN  IF \/ ~SplitHostPort(c.Listen)
           \/ IsEmpty(c.Cert) # IsEmpty(c.Key)
        THEN 0
        ELSE IF certFails \/ IsEmpty(c.ClientCACert) THEN certLoads
        ELSE certLoads + 1

\* createServerTLSConfig (server_factory.go:49-70).
createServerTLSConfig(config) ==
    LET tlsConfig ==
            [NilTLSConfig EXCEPT
                !.nil = FALSE,
                !.MinVersion = VersionTLS13,
                !.CurvePreferences = <<"tls.X25519", "tls.CurveP521",
                                       "tls.CurveP384", "tls.CurveP256">>,
                !.CipherSuites =
                    <<"tls.TLS_ECDHE_ECDSA_WITH_AES_128_GCM_SHA256",
                      "tls.TLS_ECDHE_RSA_WITH_AES_128_GCM_SHA256",
                      "tls.TLS_AES_128_GCM_SHA256",
                      "tls.TLS_AES_256_GCM_SHA384",
                      "tls.TLS_CHACHA20_POLY1305_SHA256">>,
                !.Certificates = <<config.cert>>]
    IN  IF config.clientCAPool # NilPool
        THEN [tlsConfig EXCEPT !.ClientCAs = config.clientCAPool,
                               !.ClientAuth = "RequireAndVerifyClientCert"]
        ELSE tlsConfig

\* No server has been constructed.
NoServer == [built |-> "none", err |-> Nil, tlsConfig |-> NilTLSConfig]

\* NewServer (server_factory.go:12-47), given a handler and a logger: the
\* configuration is passed by value; a TLS configuration is made only when
\* Validate left a certificate.
NewServer(config) ==
    LET v == ServerValidate(config)
    IN  IF v.err # Nil
        THEN [built |-> "error", err |-> v.err, tlsConfig |-> NilTLSConfig]
        ELSE [built |-> "ok", err |-> Nil,
              tlsConfig |-> IF v.cfg.cert # NilCert
                            THEN createServerTLSConfig(v.cfg)
                            ELSE NilTLSConfig]

\* A connection to the running server (server_impl.go:71-75: ServeTLS with a
\* TLS configuration, Serve without): over TLS or in the clear, presenting
\* no client certificate or one issued by the named CA.  The request on it
\* reaches the handler when the server speaks the client's protocol and, over
\* TLS, the handshake accepts the client.
NoPeer == "no certificate"
Peers == {NoPeer, "ca1", "ca2"}

ChainsTo(peer, pool) == peer # NoPeer /\ peer \in pool.certs

ReachesHandler(tlsConfig, overTLS, peer) ==
    IF tlsConfig.nil THEN ~overTLS
    ELSE /\ overTLS
         /\ \/ tlsConfig.ClientAuth # "RequireAndVerifyClientCert"
            \/ ChainsTo(peer, tlsConfig.ClientCAs)

NoConn == [made |-> FALSE, overTLS |-> FALSE, peer |-> NoPeer,
           reached |-> FALSE]

Listens == {<<"127.0.0.1", ":", "8080">>, <<"127.0.0.1">>, <<>>}

ServerConfigurations ==
    {[Listen |-> l, Cert |-> ck[1], Key |-> ck[2], ClientCACert |-> ca,
      TLSVersion |-> v, ECDHCurves |-> cu, CipherSuites |-> ci,
      cert |-> NilCert, clientCAPool |-> NilPool] :
        l \in Listens, ck \in CertAndKey,
        ca \in {NoPem, InlinePem("ca1"), FilePem("ca2"), InlinePem("no PEM"),
                MissingFile},
        v \in TLSVersions, cu \in CurveLists, ci \in CipherLists}

InitServerConfig ==
    /\ scfg \in ServerConfigurations
    /\ sverr = Pending
    /\ svalidations = 0
    /\ sserver = NoServer
    /\ sconn = NoConn
    /\ shist = <<>>

\* The caller calls config.Validate().
CallServerValidate ==
    /\ svalidations < MaxValidate
    /\ scfg' = ServerValidate(scfg).cfg
    /\ sverr' = ServerValidate(scfg).err
    /\ svalidations' = svalidations + 1
    /\ shist' = Append(shist, [err |-> ServerValidate(scfg).err,
                               loads |-> ServerValidateLoads(scfg),
                               before |-> ServerDerived(scfg),
                               after |-> ServerDerived(scfg')])
    /\ UNCHANGED <<sserver, sconn>>

\* The caller calls NewServer(name, config, handler, logger).
CallNewServer ==
    /\ sserver.built = "none"
    /\ sserver' = NewServer(scfg)
    /\ UNCHANGED <<scfg, sverr, svalidations, sconn, shist>>

\* A client connects to the server that was constructed and is running, and
\* sends a request.
Connect(overTLS, peer) ==
    /\ sserver.built = "ok"
    /\ sconn' = [made |-> TRUE, overTLS |-> overTLS, peer |-> peer,
                 reached |-> ReachesHandler(sserver.tlsConfig, overTLS, peer)]
    /\ UNCHANGED <<scfg, sverr, svalidations, sserver, shist>>

-----------------------------------------------------------------------------
(***************************************************************************)
(* Part 4: client.request, the outbound request pipeline                   *)
(***************************************************************************)

\* Redirects the servers chain in answer to one call of Post.
MaxHops == 2

\* ---- errors: a chain of layers <<kind, code>>, outermost first, as
\* errors.Unwrap walks it.  A log.Message layer carries a message code.
NilErr == <<>>
EFailureEncodeFailed == "HTTP_CLIENT_ENCODE_FAILED"
EFailureConnectionFailed == "HTTP_CLIENT_CONNECTION_FAILED"
EFailureDecodeFailed == "HTTP_CLIENT_DECODE_FAILED"
EClientRedirectsDisabled == "HTTP_CLIENT_REDIRECTS_DISABLED"
MClientRequest == "HTTP_CLIENT_REQUEST"
MClientRedirect == "HTTP_CLIENT_REDIRECT"
MClientResponse == "HTTP_CLIENT_RESPONSE"

\* log.NewMessage(code, ...) and log.Wrap(cause, code, ...).
NewMessage(code) == <<<<"log.Message", code>>>>
LogWrap(cause, code) == NewMessage(code) \o cause

\* An error of the standard library: of encoding/json, of net/url, of the
\* network, and the *url.Error http.Client.Do puts around what it returns.
RawErr(kind) == <<<<kind, "">>>>
URLError(cause) == RawErr("url.Error") \o cause

\* errors.As(err, &typedError) with typedError a log.Message: the outermost
\* log.Message of the chain.
Messages(e) == SelectSeq(e, LAMBDA l : l[1] = "log.Message")
ErrorsAsMessage(e) == Len(Messages(e)) > 0

\* ---- json.NewDecoder(resp.Body) with DisallowUnknownFields, decoding into
\* the Response struct of the integration test (error: bool, Message:
\* string): the keys of the object text, in order.
Keys(t) == [i \in 1..((Len(t) - 1) \div 4) |-> t[4 * i - 2][2]]

ValueFits(k, v) ==
    \/ v = Lit("null")
    \/ k = "error" /\ v \in {Lit("true"), Lit("false")}
    \/ k = "Message" /\ v[1] = "string"

\* decoder.Decode(responseBody): an error for a body that cannot be read to
\* its end, is empty, is not JSON, has a key Response lacks or a value of the
\* wrong type; otherwise the destination as the body fills it.
DecodeStrict(body, dest) ==
    LET t == body.text
        set(k) == SelectSeq(Members(t, k), LAMBDA m : m[2] # Lit("null"))
        last(k) == set(k)[Len(set(k))][2]
    IN  IF ~body.readable THEN [err |-> TRUE, dest |-> dest]
        ELSE IF Len(t) = 1 /\ t[1] = Lit("null")
        THEN [err |-> FALSE, dest |-> dest]
        ELSE IF ~IsObject(t) THEN [err |-> TRUE, dest |-> dest]
        ELSE IF \E i \in 1..Len(Keys(t)) :
                    \/ Keys(t)[i] \notin {"error", "Message"}
                    \/ ~ValueFits(Keys(t)[i], t[4 * i])
        THEN [err |-> TRUE, dest |-> dest]
        ELSE [err |-> FALSE,
              dest |-> [Error |-> IF Len(set("error")) = 0 THEN dest.Error
                                  ELSE last("error") = Lit("true"),
                        Message |-> IF Len(set("Message")) = 0
                                    THEN dest.Message
                                    ELSE last("Message")[2]]]

\* ---- the request (client_impl.go:173-197)
\* http.NewRequest(method, URL + path, buffer) fails on a URL net/url cannot
\* parse (here: a path with a broken percent escape).
Paths == {"", "/password", "/%zz"}
NewRequestOk(path) == path # "/%zz"

\* What Post is given to send.
RequestValue(m) == [type |-> "Request", Error |-> FALSE, Message |-> m]
RequestBodies == {RequestValue("Hi"), NilBody, ChanValue}

\* createRequest (client_impl.go:173-197).
createRequest(method, path, requestBody) ==
    LET m == Marshal(requestBody)
    IN  IF m.err
        THEN [err |-> LogWrap(RawErr("json"), EFailureEncodeFailed),
              req |-> <<>>]
        ELSE IF ~NewRequestOk(path)
        THEN [err |-> LogWrap(RawErr("url.Error"), EFailureEncodeFailed),
              req |-> <<>>]
        ELSE [err |-> NilErr,
              req |-> <<[method |-> method, path |-> path,
                         target |-> "endpoint",
                         header |-> {<<"Content-Type", "application/json">>},
                         body |-> m.bytes]>>]

\* ---- the redirect policy (client_impl.go:206-219)
\* CheckRedirect that follows every redirect.
CheckRedirectAllowAll(allow) ==
    [err |-> NilErr, log |-> <<MClientRedirect>>]

\* CheckRedirect of createHTTPClient: the error that stops the redirect, and
\* what is logged.
CheckRedirect(allow) ==
    IF ~allow
    THEN [err |-> NewMessage(EClientRedirectsDisabled), log |-> <<>>]
    ELSE [err |-> NilErr, log |-> <<MClientRedirect>>]

\* The status codes http.Client treats as redirects when the response has a
\* Location header, and the request http.Client sends to the Location: GET
\* with no body after 301, 302 and 303, the same request after 307 and 308.
RedirectStatuses == {301, 302, 303, 307, 308}

RedirectRequest(req, status) ==
    IF status \in {307, 308} THEN [req EXCEPT !.target = "location"]
    ELSE [req EXCEPT !.target = "location", !.method = "GET", !.body = <<>>]

\* ---- the result of request (client_impl.go:145-170)
\* DoFailed that wraps every error of Do, the redirect policy's included.
DoFailedWrapAll(e) == [status |-> 0, err |-> LogWrap(e, EFailureConnectionFailed)]

\* Lines 146-154: httpClient.Do returned the error e.
DoFailed(e) ==
    IF ErrorsAsMessage(e) THEN [status |-> 0, err |-> e]
    ELSE [status |-> 0, err |-> LogWrap(e, EFailureConnectionFailed)]

\* Decoded as the earlier request did (client_impl.go:280-285): 0 with the
\* raw error.
DecodedEarlier(status, failed) ==
    [status |-> IF failed THEN 0 ELSE status,
     err |-> IF failed THEN RawErr("json") ELSE NilErr]

\* Decoded that takes a status of 400 and above for a failure.
DecodedStatusIsError(status, failed) ==
    IF failed \/ status >= 400
    THEN [status |-> status,
          err |-> LogWrap(RawErr("json"), EFailureDecodeFailed)]
    ELSE [status |-> status, err |-> NilErr]

\* Lines 163-170: the response with the given status was decoded, or failed
\* to be.
Decoded(status, failed) ==
    IF failed
    THEN [status |-> status,
          err |-> LogWrap(RawErr("json"), EFailureDecodeFailed)]
    ELSE [status |-> status, err |-> NilErr]

\* The responses of a server: a status, whether a Location header comes with
\* it, and the body as a stream that may break, with its text.
ResponseStatuses == {200, 301, 307, 400, 500}
ResponseTexts ==
    {Marshal(ResponseValue(FALSE, "Hello world!")).bytes,
     Marshal(ResponseValue(TRUE, "Be nice and greet me!")).bytes,
     Marshal(internalErrorResponse.body).bytes,
     TextExtra, TextTruncated, TextEmpty}
Responses ==
    [status : ResponseStatuses, location : BOOLEAN, readable : {TRUE},
     text : ResponseTexts]
    \cup [status : ResponseStatuses, location : {FALSE}, readable : {FALSE},
          text : {Marshal(ResponseValue(FALSE, "Hello world!")).bytes}]

\* http.Client follows the response as a redirect.
IsRedirect(resp) == resp.status \in RedirectStatuses /\ resp.location

NoResponse == [status |-> 0, location |-> FALSE, readable |-> TRUE,
               text |-> TextEmpty]
NoDest == [Error |-> FALSE, Message |-> ""]
NoResult == [status |-> 0, err |-> NilErr]

InitRequest ==
    /\ allowRedirects \in BOOLEAN
    /\ ppc = "idle"
    /\ dispatched = <<>>
    /\ presp = NoResponse
    /\ pret = NoResult
    /\ pdest = NoDest
    /\ pdecoded = FALSE
    /\ plog = <<>>

\* client.Post(path, requestBody, &Response{}) up to httpClient.Do (lines
\* 112-145): the request is made and dispatched, or request returns the
\* error of createRequest.
Post(path, requestBody) ==
    LET r == createRequest("POST", path, requestBody)
    IN  /\ ppc \in {"idle", "returned"}
        /\ presp' = NoResponse
        /\ pdest' = NoDest
        /\ pdecoded' = FALSE
        /\ IF r.err # NilErr
           THEN /\ ppc' = "returned"
                /\ dispatched' = <<>>
                /\ pret' = [status |-> 0, err |-> r.err]
                /\ plog' = <<r.err[1][2]>>
           ELSE /\ ppc' = "waiting"
                /\ dispatched' = r.req
                /\ pret' = NoResult
                /\ plog' = <<MClientRequest>>
        /\ UNCHANGED allowRedirects

\* The request sent last gets no response: the connection fails, the TLS
\* handshake fails or the timeout ends the wait; Do returns the error.
TransportFails(kind) ==
    /\ ppc = "waiting"
    /\ ppc' = "returned"
    /\ pret' = DoFailed(URLError(RawErr(kind)))
    /\ plog' = Append(plog, pret'.err[1][2])
    /\ UNCHANGED <<allowRedirects, dispatched, presp, pdest, pdecoded>>

\* The request sent last is answered with a redirect: http.Client asks
\* CheckRedirect, and sends the next request or has Do return the error.
Redirected(resp) ==
    LET check == CheckRedirect(allowRedirects)
        last == dispatched[Len(dispatched)]
    IN  /\ ppc = "waiting"
        /\ IsRedirect(resp)
        /\ Len(dispatched) <= MaxHops
        /\ presp' = resp
        /\ IF check.err # NilErr
           THEN /\ ppc' = "returned"
                /\ pret' = DoFailed(URLError(check.err))
                /\ plog' = plog
                /\ dispatched' = dispatched
           ELSE /\ ppc' = "waiting"
                /\ pret' = pret
                /\ plog' = plog \o check.log
                /\ dispatched' =
                       Append(dispatched, RedirectRequest(last, resp.status))
        /\ UNCHANGED <<allowRedirects, pdest, pdecoded>>

\* The request sent last is answered with a response http.Client does not
\* follow: Do returns it and request decodes its body (lines 155-170).
Answered(resp) ==
    LET d == DecodeStrict(resp, pdest)
    IN  /\ ppc = "waiting"
        /\ ~IsRedirect(resp)
        /\ ppc' = "returned"
        /\ presp' = resp
        /\ pdest' = d.dest
        /\ pdecoded' = TRUE
        /\ pret' = Decoded(resp.status, d.err)
        /\ plog' = plog \o <<MClientResponse>>
                        \o (IF d.err THEN <<EFailureDecodeFailed>> ELSE <<>>)
        /\ UNCHANGED <<allowRedirects, dispatched>>

-----------------------------------------------------------------------------
(***************************************************************************)
(* Part 5: ECDHCurveList and CipherSuiteList read from a configuration     *)
(* file, as a sequence of names or as one colon-separated string           *)
(***************************************************************************)

\* Number of names a list in a configuration file has.
MaxNames == 2

\* ---- a string is the sequence of its pieces: the colon, and runs of
\* characters with no colon in them.
NameText(n) == IF n = "" THEN <<>> ELSE <<n>>

RECURSIVE Join(_)
\* strings.Join(names, ":").
Join(names) ==
    IF names = <<>> THEN <<>>
    ELSE IF Len(names) = 1 THEN NameText(names[1])
    ELSE NameText(names[1]) \o <<":">> \o Join(Tail(names))

RECURSIVE Concat(_)
\* The string a sequence of pieces spells.
Concat(text) == IF text = <<>> THEN "" ELSE text[1] \o Concat(Tail(text))

RECURSIVE Split(_)
\* strings.Split(text, ":"): the runs between the colons, of which there is
\* one more than there are colons, so one (the empty string) for the empty
\* string.
Split(text) ==
    IF \A i \in 1..Len(text) : text[i] # ":" THEN <<Concat(text)>>
    ELSE LET k == CHOOSE i \in 1..Len(text) :
                      text[i] = ":" /\ \A j \in 1..(i - 1) : text[j] # ":"
         IN  <<Concat(SubSeq(text, 1, k - 1))>>
                 \o Split(SubSeq(text, k + 1, Len(text)))

\* ---- the value of the field in the file: a sequence of strings or a string
\* (anything else is an error).
SequenceData(names) == [kind |-> "sequence", items |-> names, text |-> <<>>]
StringData(text) == [kind |-> "string", items |-> <<>>, text |-> text]

\* UnmarshalJSON without the split of the string at its colons.
UnmarshalNamesWholeString(c, data) ==
    IF data.kind = "sequence" THEN [err |-> FALSE, list |-> c \o data.items]
    ELSE IF data.kind = "string"
    THEN [err |-> FALSE, list |-> c \o <<Concat(data.text)>>]
    ELSE [err |-> TRUE, list |-> c]

\* ECDHCurveList.UnmarshalJSON and UnmarshalYAML (part_002:106-141),
\* CipherSuiteList.UnmarshalJSON and UnmarshalYAML (part_002:154-188), which
\* are the same code: the entries of a sequence, or else of a string split at
\* its colons, are appended to the list c.
UnmarshalNames(c, data) ==
    IF data.kind = "sequence" THEN [err |-> FALSE, list |-> c \o data.items]
    ELSE IF data.kind = "string"
    THEN [err |-> FALSE, list |-> c \o Split(data.text)]
    ELSE [err |-> TRUE, list |-> c]

\* The native ids of a list: getList of its kind.
getList(kind, l) ==
    IF kind = "curves" THEN getCurveList(l) ELSE getCipherList(l)

\* Validate of a list of its kind.
ListValidate(kind, l) ==
    IF kind = "curves" THEN ECDHCurveListValidate(l)
    ELSE CipherSuiteListValidate(l)

\* What a client is made with from a list: Validate first (part_002:347-352),
\* and the native ids of getList (part_007:42-43) only for a list it accepts.
Resolved(kind, l) ==
    IF ListValidate(kind, l)
    THEN [valid |-> TRUE, ids |-> getList(kind, l).ids]
    ELSE [valid |-> FALSE, ids |-> <<>>]

\* The names files list: spellings of the same curve and suite, other curves
\* and suites, a name no table has, and the empty name.
NamesOf(kind) ==
    IF kind = "curves"
    THEN {"x25519", "X25519", "secp384r1", "brainpoolP256r1", ""}
    ELSE {"TLS_ECDHE_RSA_WITH_AES_128_GCM_SHA256",
          "ECDHE-RSA-AES128-GCM-SHA256", "TLS_ECDHE_RSA_AES_128_GCM_SHA256",
          "TLS_AES_256_GCM_SHA384", "RC4-SHA", ""}

RECURSIVE SeqsUpTo(_, _)
SeqsUpTo(S, n) ==
    IF n = 0 THEN {<<>>}
    ELSE SeqsUpTo(S, n - 1)
            \cup {Append(q, x) : q \in {r \in SeqsUpTo(S, n - 1) :
                                              Len(r) = n - 1}, x \in S}

NotDecoded == [done |-> FALSE, err |-> FALSE, list |-> <<>>]

InitList ==
    /\ lkind \in {"curves", "ciphers"}
    /\ lnames \in SeqsUpTo(NamesOf(lkind), MaxNames)
    /\ lfromString = NotDecoded
    /\ lfromSequence = NotDecoded

\* The file gives the names as one string, joined by colons.
DecodeString ==
    /\ ~lfromString.done
    /\ LET r == UnmarshalNames(<<>>, StringData(Join(lnames)))
       IN  lfromString' = [done |-> TRUE, err |-> r.err, list |-> r.list]
    /\ UNCHANGED <<lkind, lnames, lfromSequence>>

\* The file gives the names as a sequence.
DecodeSequence ==
    /\ ~lfromSequence.done
    /\ LET r == UnmarshalNames(<<>>, SequenceData(lnames))
       IN  lfromSequence' = [done |-> TRUE, err |-> r.err, list |-> r.list]
    /\ UNCHANGED <<lkind, lnames, lfromString>>

-----------------------------------------------------------------------------
\* The parts a specification does not study stay as they start: the generic
\* handler, the configurations of the integration test's plain HTTP case and
\* a client that follows no redirect.
QuietHandler == InitHandler /\ requestHandler = "generic"

QuietClientConfig ==
    /\ ccfg = [URL |-> URLOf("http"), AllowRedirects |-> FALSE,
               Timeout |-> 20 * MinTimeout, CACert |-> NoPem,
               ClientCert |-> NoPem, ClientKey |-> NoPem,
               TLSVersion |-> "", ECDHCurves |-> <<>>, CipherSuites |-> <<>>,
               RequestEncoding |-> "", caCertPool |-> NilPool,
               cert |-> NilCert]
    /\ cverr = Pending
    /\ cvalidations = 0
    /\ cclient = NoClient
    /\ chist = <<>>

QuietServerConfig ==
    /\ scfg = [Listen |-> <<"127.0.0.1", ":", "8080">>, Cert |-> NoPem,
               Key |-> NoPem, ClientCACert |-> NoPem, TLSVersion |-> "",
               ECDHCurves |-> <<>>, CipherSuites |-> <<>>, cert |-> NilCert,
               clientCAPool |-> NilPool]
    /\ sverr = Pending
    /\ svalidations = 0
    /\ sserver = NoServer
    /\ sconn = NoConn
    /\ shist = <<>>

QuietRequest == InitRequest /\ allowRedirects = FALSE

QuietList == InitList /\ lkind = "curves" /\ lnames = <<>>

Init ==
    /\ InitLifecycle
    /\ InitHandler
    /\ QuietClientConfig
    /\ QuietServerConfig
    /\ QuietRequest
    /\ QuietList

\* The server is given the generic handler when only its lifecycle is studied.
LifecycleInit == Init /\ requestHandler = "generic"

Next ==
    \/ \E c \in Calls : Call(c) /\ UNCHANGED notLifecycle
    \/ \E c \in Calls : Cancel(c) /\ UNCHANGED notLifecycle
    \/ \E c \in Calls : RunLock(c) /\ UNCHANGED notLifecycle
    \/ \E c \in Calls : ListenOk(c) /\ UNCHANGED notLifecycle
    \/ \E c \in Calls : ListenFail(c) /\ UNCHANGED notLifecycle
    \/ \E c \in Calls : Running(c) /\ UNCHANGED notLifecycle
    \/ \E c \in Calls : UnlockAndWatch(c) /\ UNCHANGED notLifecycle
    \/ \E c \in Calls : ServeBegin(c) /\ UNCHANGED notLifecycle
    \/ \E c \in Calls : ServeEnd(c) /\ UNCHANGED notLifecycle
    \/ \E c \in Calls : SignalFinished(c) /\ UNCHANGED notLifecycle
    \/ \E c \in Calls : DeferNil(c) /\ UNCHANGED notLifecycle
    \/ \E c \in Calls : WatchCtx(c) /\ UNCHANGED notLifecycle
    \/ \E c \in Calls : WatchFinished(c) /\ UNCHANGED notLifecycle
    \/ \E c \in Calls : WatchLock(c) /\ UNCHANGED notLifecycle
    \/ \E c \in Calls : ShutdownBegin(c) /\ UNCHANGED notLifecycle
    \/ \E c \in Calls : ShutdownEnd(c) /\ UNCHANGED notLifecycle

\* The lifecycle of one server instance.
Spec == LifecycleInit /\ [][Next]_vars

\* What the Go scheduler and net/http guarantee: a goroutine that can take a
\* step of RunWithLifecycle or of the watcher takes it in the end, net.Listen
\* and srv.Shutdown return, and Serve returns once Shutdown was called on its
\* server.  Nothing makes a caller call or a context be cancelled, and a
\* Serve that nobody shuts down may go on for ever.
Fairness ==
    \A c \in Calls :
        /\ WF_vars(RunLock(c) /\ UNCHANGED notLifecycle)
        /\ WF_vars((ListenOk(c) \/ ListenFail(c)) /\ UNCHANGED notLifecycle)
        /\ WF_vars(Running(c) /\ UNCHANGED notLifecycle)
        /\ WF_vars(UnlockAndWatch(c) /\ UNCHANGED notLifecycle)
        /\ WF_vars(ServeBegin(c) /\ UNCHANGED notLifecycle)
        /\ WF_vars(inShutdown[c] /\ ServeEnd(c) /\ UNCHANGED notLifecycle)
        /\ WF_vars(SignalFinished(c) /\ UNCHANGED notLifecycle)
        /\ WF_vars(DeferNil(c) /\ UNCHANGED notLifecycle)
        /\ WF_vars((WatchCtx(c) \/ WatchFinished(c)) /\ UNCHANGED notLifecycle)
        /\ WF_vars(WatchLock(c) /\ UNCHANGED notLifecycle)
        /\ WF_vars(ShutdownBegin(c) /\ UNCHANGED notLifecycle)
        /\ WF_vars(ShutdownEnd(c) /\ UNCHANGED notLifecycle)

\* The lifecycle of one server instance, with goroutines that make progress.
FairSpec == LifecycleInit /\ [][Next]_vars /\ Fairness

HandlerNext ==
    \/ \E req \in Requests : ServeHTTPBegin(req) /\ UNCHANGED notHandler
    \/ \E s \in Statuses : SetStatus(s) /\ UNCHANGED notHandler
    \/ \E b \in Bodies : SetBody(b) /\ UNCHANGED notHandler
    \/ DecodeRequest /\ UNCHANGED notHandler
    \/ \E e \in {Nil, ErrHandler, ErrBadRequest, ErrWrappedBadRequest, ErrJSON},
          ok \in BOOLEAN : OnRequestReturn(e, ok) /\ UNCHANGED notHandler
    \/ \E ok \in BOOLEAN : GreetingOnRequest(ok) /\ UNCHANGED notHandler

\* The handler adapter serving requests.
HandlerSpec == Init /\ [][HandlerNext]_vars


ClientConfigInit ==
    /\ InitLifecycle
    /\ QuietHandler
    /\ InitClientConfig
    /\ QuietServerConfig
    /\ QuietRequest
    /\ QuietList

ClientConfigNext ==
    \/ \E sys \in BOOLEAN : CallClientValidate(sys) /\ UNCHANGED notClientConfig
    \/ \E sys \in BOOLEAN : CallNewClient(sys) /\ UNCHANGED notClientConfig

\* A client configuration validated and a client made from it.
ClientConfigSpec == ClientConfigInit /\ [][ClientConfigNext]_vars

ServerConfigInit ==
    /\ InitLifecycle
    /\ QuietHandler
    /\ QuietClientConfig
    /\ InitServerConfig
    /\ QuietRequest
    /\ QuietList

ServerConfigNext ==
    \/ CallServerValidate /\ UNCHANGED notServerConfig
    \/ CallNewServer /\ UNCHANGED notServerConfig
    \/ \E overTLS \in BOOLEAN, peer \in Peers :
          Connect(overTLS, peer) /\ UNCHANGED notServerConfig

\* A server configuration validated, a server made from it, and connections
\* to the server.
ServerConfigSpec == ServerConfigInit /\ [][ServerConfigNext]_vars

RequestInit ==
    /\ InitLifecycle
    /\ QuietHandler
    /\ QuietClientConfig
    /\ QuietServerConfig
    /\ InitRequest
    /\ QuietList

RequestNext ==
    \/ \E path \in Paths, requestBody \in RequestBodies :
          Post(path, requestBody) /\ UNCHANGED notRequest
    \/ \E kind \in {"net.OpError", "tls", "timeout"} :
          TransportFails(kind) /\ UNCHANGED notRequest
    \/ \E resp \in Responses : Redirected(resp) /\ UNCHANGED notRequest
    \/ \E resp \in Responses : Answered(resp) /\ UNCHANGED notRequest

\* The client making requests.
RequestSpec == RequestInit /\ [][RequestNext]_vars

\* Either configuration, drawn from its domain.  The two share no state, so a
\* behaviour works on the one that was drawn and leaves the other as it
\* started.
ConfigInit == ClientConfigInit \/ ServerConfigInit

ConfigNext ==
    \/ \E sys \in BOOLEAN :
          QuietServerConfig /\ CallClientValidate(sys)
              /\ UNCHANGED notClientConfig
    \/ \E sys \in BOOLEAN :
          QuietServerConfig /\ CallNewClient(sys) /\ UNCHANGED notClientConfig
    \/ QuietClientConfig /\ CallServerValidate /\ UNCHANGED notServerConfig
    \/ QuietClientConfig /\ CallNewServer /\ UNCHANGED notServerConfig
    \/ \E overTLS \in BOOLEAN, peer \in Peers :
          QuietClientConfig /\ Connect(overTLS, peer)
              /\ UNCHANGED notServerConfig

\* A client or a server configuration validated, and a client or server made
\* from it.
ConfigSpec == ConfigInit /\ [][ConfigNext]_vars

ListInit ==
    /\ InitLifecycle
    /\ QuietHandler
    /\ QuietClientConfig
    /\ QuietServerConfig
    /\ QuietRequest
    /\ InitList

ListNext ==
    \/ DecodeString /\ UNCHANGED notList
    \/ DecodeSequence /\ UNCHANGED notList

\* A list of curves or of cipher suites decoded from its two forms.
ListSpec == ListInit /\ [][ListNext]_vars

-----------------------------------------------------------------------------
(***************************************************************************)
(* Properties of the lifecycle (specification Spec)                        *)
(***************************************************************************)

\* The call has bound its listener: it is past net.Listen without an error.
Bound(c) ==
    \/ pc[c] \in {"running", "unlock", "serve", "serving", "finished"}
    \/ pc[c] \in {"deferNil", "done"} /\ ret[c] \notin {ErrListen, ErrAlreadyRunning}

\* RunWithLifecycle has returned to its caller.
Returned(c) == pc[c] = "done"

\* The watcher's srv.Shutdown(...) has returned.
ShutdownDone(c) == wout[c] \in {"shutdown", "shutdownDeadline"}

\* C1: a run that is rejected as already running has no side effect on the
\* instance and does not disturb the active run: in particular it does not
\* leave with the guard s.lock taken, which the active run's watcher and
\* deferred cleanup need to shut down and to return.
C1_RejectedRunHasNoSideEffect ==
    \A c \in Calls : ret[c] = ErrAlreadyRunning => lock # c

\* C2: at most one listener is bound for the instance at any time, and it is
\* the listener of the native server s.srv points to.
C2_AtMostOneListener ==
    /\ Cardinality({c \in Calls : ln[c]}) <= 1
    /\ \A c \in Calls : ln[c] => srv = c

C2_Witness ==
    \E c, d \in Calls :
        /\ c # d
        /\ ln[c]
        /\ wpc[c] = "shutdown"
        /\ pc[d] = "lock"

C4_ReadyExactlyOnce ==
    \A c \in Calls :
        /\ running[c] = IF Bound(c) /\ pc[c] # "running" THEN 1 ELSE 0
        /\ pc[c] = "running" => ln[c]
        /\ pc[c] \in {"serve", "serving"} => running[c] = 1

C4_Witness ==
    \E c, d \in Calls :
        /\ pc[c] = "serving"
        /\ running[c] = 1
        /\ Returned(d)
        /\ ret[d] = ErrListen
        /\ running[d] = 0

\* No other call is inside RunWithLifecycle.
OthersIdle(c) == \A d \in Calls \ {c} : pc[d] \in {"idle", "done"}

\* C5: when a run returns, the instance is Idle (s.srv is nil, the guard is
\* free), and a run that starts while no other run is in progress is never
\* rejected as already running: it installs its own native server.
C5_RerunAfterReturn ==
    [][\A c \in Calls :
          /\ (pc[c] = "deferNil" /\ pc'[c] = "done")
                => (srv' = NoSrv /\ lock' = Unlocked)
          /\ (pc[c] = "lock" /\ pc'[c] # "lock" /\ OthersIdle(c))
                => (pc'[c] = "listen" /\ srv' = c)]_vars

C5_Witness ==
    \E c, d \in Calls :
        /\ Returned(c)
        /\ ret[c] = Nil
        /\ inShutdown[c]
        /\ pc[d] = "serving"
        /\ ln[d]
        /\ srv = d

\* C6: a shutdown request that finds no native server bound returns at once
\* (the guard is free for it to take), calls Shutdown on no native server and
\* changes nothing of the instance or of any run.
C6_ShutdownOfIdleIsNoop ==
    /\ [](\A c \in Calls : wpc[c] = "lock" /\ srv = NoSrv => lock = Unlocked)
    /\ [][\A c \in Calls :
             (wpc[c] = "lock" /\ wpc'[c] # "lock" /\ srv = NoSrv)
                => /\ wpc'[c] = "done"
                   /\ wout'[c] = "noop"
                   /\ wsrv'[c] = NoSrv
                   /\ UNCHANGED <<lock, srv, pc, ln, inShutdown, err, ret,
                                  running, ctxDone, serverFinished>>]_vars

C6_Witness ==
    \E c \in Calls : wout[c] = "noop" /\ Returned(c)

\* C7: RunWithLifecycle returns nil when Serve ended with ErrServerClosed and
\* returns the error itself for any other error of Serve.
C7_GracefulShutdownIsNotAnError ==
    \A c \in Calls :
        pc[c] \in {"deferNil", "done"} =>
            /\ err[c] = ErrServerClosed => ret[c] = Nil
            /\ err[c] = ErrServe => ret[c] = ErrServe
            /\ ret[c] = Nil => err[c] = ErrServerClosed

C7_Witness ==
    \E c, d \in Calls :
        /\ Returned(c)
        /\ err[c] = ErrServerClosed
        /\ ret[c] = Nil
        /\ Returned(d)
        /\ ret[d] = ErrServe

-----------------------------------------------------------------------------
(***************************************************************************)
(* Properties of the handler adapter (specification HandlerSpec)           *)
(***************************************************************************)

\* ServeHTTP has answered the request.
Responded == hpc = "responded"

\* The bytes of {"error":false,"Message":"Hello world!"}.
GreetingText ==
    <<LBrace, Str("error"), Colon, Lit("false"), Comma, Str("Message"), Colon,
      Str("Hello world!"), RBrace>>

\* The bytes of {"error":true,"Message":"Be nice and greet me!"}.
BeNiceText ==
    <<LBrace, Str("error"), Colon, Lit("true"), Comma, Str("Message"), Colon,
      Str("Be nice and greet me!"), RBrace>>

\* The bytes of {"error":"Bad Request"} and {"error":"Internal Server Error"}.
BadRequestText == <<LBrace, Str("error"), Colon, Str("Bad Request"), RBrace>>
InternalErrorText ==
    <<LBrace, Str("error"), Colon, Str("Internal Server Error"), RBrace>>

\* The body the client got is the given text (nothing when the write failed).
SentBody(text) == writer.body = IF writer.failed THEN <<>> ELSE text

\* The request carries the message m in a body Decode accepts.
Says(m) ==
    /\ request.readable
    /\ ~Unmarshal(request.text).err
    /\ Unmarshal(request.text).Message = m

\* C8: when the handler returns no error and the body it set can be encoded,
\* the status sent is the last status the handler set (200 when it set none)
\* and the body sent is the JSON encoding of the body it set; so the greeting
\* handler answers 200 with the greeting to the message "Hi" and 400 with its
\* own error body to any other message.
C8_HandlerResponseIsSent ==
    Responded /\ handlerErr = Nil =>
        /\ ~Marshal(lastBody).err =>
              /\ writer.status = lastStatus
              /\ SentBody(Marshal(lastBody).bytes)
        /\ requestHandler = "greeting" /\ Says("Hi") =>
              /\ writer.status = 200
              /\ SentBody(GreetingText)
        /\ requestHandler = "greeting" /\ ~Says("Hi") =>
              /\ writer.status = 400
              /\ SentBody(BeNiceText)

C8_Witness ==
    /\ Responded
    /\ requestHandler = "greeting"
    /\ request.text = TextHm
    /\ handlerErr = Nil
    /\ writer.status = 400
    /\ writer.body = BeNiceText

\* The handler returned the error its request.Decode gave it (as it is, or
\* wrapped).
ReturnedDecodeError ==
    /\ Responded
    /\ decodeErr # Nil
    /\ handlerErr \in {decodeErr, Wrap(decodeErr)}

\* C9: when the handler's error was caused by a request body that Decode
\* could not read or could not decode, the response is 400 with the generic
\* Bad Request body.
C9_DecodeFailureIsBadRequest ==
    ReturnedDecodeError =>
        /\ writer.status = 400
        /\ SentBody(BadRequestText)

\* C10: when the handler returns an error that is not the bad-request signal,
\* the response is 500 with the generic Internal Server Error body, whatever
\* status and body the handler had set, and the error is logged.
C10_HandlerErrorIsInternalError ==
    Responded /\ handlerErr # Nil /\ ~IsBadRequest(handlerErr) =>
        /\ writer.status = 500
        /\ SentBody(InternalErrorText)
        /\ "warning" \in logged

C10_Witness ==
    /\ Responded
    /\ handlerErr = ErrHandler
    /\ lastStatus = 404
    /\ lastBody = ResponseValue(FALSE, "Hello world!")
    /\ writer.status = 500
    /\ writer.body = InternalErrorText

\* C11: every response of the adapter (handler-chosen, generic 400, generic
\* 500) carries Content-Type: application/json in the header set that goes out
\* with the status line.
C11_ContentTypeIsJSON ==
    Responded => <<"Content-Type", "application/json">> \in writer.sent

\* C12: when the body the handler set cannot be JSON-encoded, the adapter
\* answers 500 with the generic Internal Server Error body, never the
\* handler's status with an empty or partial body, and logs the error.
C12_EncodeFailureIsInternalError ==
    Responded /\ handlerErr = Nil /\ Marshal(lastBody).err =>
        /\ writer.status = 500
        /\ SentBody(InternalErrorText)
        /\ "error" \in logged

C12_Witness ==
    /\ Responded
    /\ handlerErr = Nil
    /\ lastBody = ChanValue
    /\ lastStatus = 404
    /\ writer.status = 500
    /\ writer.body = InternalErrorText

-----------------------------------------------------------------------------
(***************************************************************************)
(* Properties of the configurations (specifications ServerConfigSpec and   *)
(* ClientConfigSpec)                                                       *)
(***************************************************************************)

\* The pool the clientcacert field of the server configuration describes.
ConfiguredClientCAs ==
    AppendCertsFromPEM(NewCertPool, loadPem(scfg.ClientCACert).bytes).pool

\* C13: when a server was constructed from a configuration with clientcacert
\* set, a request reaches the handler only on a TLS connection whose client
\* certificate chains to the configured pool.
C13_ClientCAMeansVerifiedClients ==
    sconn.reached /\ ~IsEmpty(scfg.ClientCACert) =>
        /\ sconn.overTLS
        /\ ChainsTo(sconn.peer, ConfiguredClientCAs)

\* The configuration is well-formed apart from its TLS fields: the URL is a
\* URL, the timeout is at least 100ms, the CA certificate is absent or a
\* certificate that can be loaded, the request encoding is a known one, and
\* client certificate and key are both absent or a matching pair.
Loadable(spec, contents) ==
    spec.kind \in {"inline", "file"} /\ spec.content \in contents

WellFormed(c) ==
    /\ c.URL \in {URLOf("http"), URLOf("https"), URLOf("HTTPS")}
    /\ c.Timeout >= MinTimeout
    /\ c.CACert.kind \in {"empty", "blank"} \/ Loadable(c.CACert, Certificates)
    /\ c.RequestEncoding \in {"", "JSON", "WWW-URLENCODED"}
    /\ \/ c.ClientCert.kind = "empty" /\ c.ClientKey.kind = "empty"
       \/ Loadable(c.ClientCert, {"cert1"}) /\ Loadable(c.ClientKey, {"key1"})

\* The URL is one Validate and createTLSConfig take for secure: its text
\* starts with https://.
SecureURL(c) == c.URL = URLOf("https")

\* C19: for a well-formed client configuration whose URL is not an https://
\* URL, Validate succeeds whatever TLSVersion, ECDHCurves and CipherSuites
\* hold, and NewClient succeeds with no TLS configuration for the transport.
C19_PlainURLIgnoresTLSFields ==
    WellFormed(ccfg) /\ ~SecureURL(ccfg) =>
        /\ cverr \in {Pending, Nil}
        /\ cclient.built \in {"none", "ok"}
        /\ cclient.tlsConfig = NilTLSConfig

C19_Witness ==
    /\ ccfg.URL = URLOf("http")
    /\ ccfg.TLSVersion = "1.1"
    /\ ccfg.ECDHCurves = <<>>
    /\ ccfg.CipherSuites = <<"TLS_AES_256_GCM_SHA384", "RC4-SHA">>
    /\ ccfg.cert # NilCert
    /\ cverr = Nil
    /\ cclient.built = "ok"
    /\ cclient.tlsConfig.nil

\* A TLS field is not acceptable: the version is not a supported one, or the
\* curve or cipher suite list is empty or names something the translation
\* tables do not resolve.
BadTLSVersion(c) == c.TLSVersion \notin {"1.2", "1.3"}
BadCurves(c) ==
    \/ c.ECDHCurves = <<>>
    \/ \E i \in 1..Len(c.ECDHCurves) : c.ECDHCurves[i] \notin DOMAIN curveToID
BadCipherSuites(c) ==
    \/ c.CipherSuites = <<>>
    \/ \E i \in 1..Len(c.CipherSuites) :
           c.CipherSuites[i] \notin DOMAIN stringToCipherSuite

-----------------------------------------------------------------------------
(***************************************************************************)
(* Properties of the request pipeline (specification RequestSpec)          *)
(***************************************************************************)

\* request has returned to the caller of Post.
RequestReturned == ppc = "returned"

\* The message codes errors.As finds in the error request returned.
Codes(e) == [i \in 1..Len(Messages(e)) |-> Messages(e)[i][2]]

\* C14: with allowRedirects false no request is ever sent to the target of a
\* redirect, and a call whose request was answered with a redirect returns
\* the redirects-disabled condition without decoding anything into the
\* caller's destination.
C14_NoRedirectFollowed ==
    ~allowRedirects =>
        /\ \A i \in 1..Len(dispatched) : dispatched[i].target = "endpoint"
        /\ Len(dispatched) <= 1
        /\ RequestReturned /\ IsRedirect(presp) =>
              /\ Codes(pret.err) = <<EClientRedirectsDisabled>>
              /\ ~pdecoded
              /\ pdest = NoDest

C14_Witness ==
    /\ ~allowRedirects
    /\ RequestReturned
    /\ presp.status = 307
    /\ presp.location
    /\ Len(dispatched) = 1
    /\ Codes(pret.err) = <<EClientRedirectsDisabled>>

\* The texts of response bodies that are not JSON, or have a field the
\* destination type lacks, and of those that match the destination type.
UndecodableTexts == {TextTruncated, TextEmpty, TextExtra}
DecodableTexts ==
    {Marshal(ResponseValue(FALSE, "Hello world!")).bytes,
     Marshal(ResponseValue(TRUE, "Be nice and greet me!")).bytes}

\* C15: when Do returned a response whose body is not JSON or has a field the
\* destination lacks, request returns decode_failed together with the status
\* code of the response.
C15_DecodeFailureKeepsStatus ==
    RequestReturned /\ pdecoded /\ presp.text \in UndecodableTexts =>
        /\ Codes(pret.err) = <<EFailureDecodeFailed>>
        /\ pret.status = presp.status

C15_Witness ==
    /\ RequestReturned
    /\ pdecoded
    /\ presp.status = 500
    /\ presp.text = TextExtra
    /\ pret.status = 500
    /\ Codes(pret.err) = <<EFailureDecodeFailed>>

C17_StatusIsNotAnError ==
    /\ RequestReturned
    /\ pdecoded
    /\ presp.readable
    /\ presp.text \in DecodableTexts
    => pret = [status |-> presp.status, err |-> NilErr]

C17_Witness ==
    /\ RequestReturned
    /\ presp.status = 400
    /\ pret = [status |-> 400, err |-> NilErr]
    /\ pdest = [Error |-> TRUE, Message |-> "Be nice and greet me!"]

\* C18: every request the client sends carries Accept: application/json.
C18_AcceptHeaderOnEveryRequest ==
    \A i \in 1..Len(dispatched) :
        <<"Accept", "application/json">> \in dispatched[i].header

-----------------------------------------------------------------------------
(***************************************************************************)
(* Properties of both configurations (specification ConfigSpec)            *)
(***************************************************************************)

\* Certificate and key as given: exactly one of them, both but no matching
\* pair (one cannot be loaded, or the key is not the certificate's), both and
\* matching.
ExactlyOne(certSpec, keySpec) == IsEmpty(certSpec) # IsEmpty(keySpec)

MatchingPair(certSpec, keySpec) ==
    /\ ~loadPem(certSpec).err
    /\ ~loadPem(keySpec).err
    /\ ~X509KeyPair(loadPem(certSpec).bytes, loadPem(keySpec).bytes).err

Mismatched(certSpec, keySpec) ==
    /\ ~IsEmpty(certSpec)
    /\ ~IsEmpty(keySpec)
    /\ ~MatchingPair(certSpec, keySpec)

\* The other fields of the client configuration are valid: it is well-formed,
\* and its TLS fields are acceptable when the URL is an https:// one.
ClientOthersValid(c) ==
    /\ WellFormed(c)
    /\ SecureURL(c) =>
          ~(BadTLSVersion(c) \/ BadCurves(c) \/ BadCipherSuites(c))

\* The other fields of the server configuration are valid: the listen address
\* is host:port, the client CA certificate is absent or can be loaded, and the
\* TLS fields are acceptable when certificate and key are given.
ServerOthersValid(c) ==
    /\ SplitHostPort(c.Listen)
    /\ IsEmpty(c.ClientCACert) \/ Loadable(c.ClientCACert, Certificates)
    /\ ~IsEmpty(c.Cert) =>
          ~(BadTLSVersion(c) \/ BadCurves(c) \/ BadCipherSuites(c))

\* C21: for the client and for the server configuration, Validate fails when
\* exactly one of certificate and key is given, fails when both are given and
\* are no matching pair, and, when both are given and match and the other
\* fields are valid (and the system certificate pool, where the client needs
\* it, can be read), succeeds and leaves the one certificate made of the pair
\* on the configuration.
C21_CertificateAndKeyGoTogether ==
    /\ cverr # Pending =>
          /\ ExactlyOne(ccfg.ClientCert, ccfg.ClientKey) => cverr # Nil
          /\ Mismatched(ccfg.ClientCert, ccfg.ClientKey) => cverr # Nil
          /\ /\ MatchingPair(ccfg.ClientCert, ccfg.ClientKey)
             /\ ClientOthersValid(ccfg)
             /\ cverr # "system certificate pool unusable"
             => /\ cverr = Nil
                /\ ccfg.cert = <<"cert1", "key1">>
    /\ sverr # Pending =>
          /\ ExactlyOne(scfg.Cert, scfg.Key) => sverr # Nil
          /\ Mismatched(scfg.Cert, scfg.Key) => sverr # Nil
          /\ MatchingPair(scfg.Cert, scfg.Key) /\ ServerOthersValid(scfg)
             => /\ sverr = Nil
                /\ scfg.cert = <<"cert1", "key1">>

C21_Witness ==
    /\ cvalidations = 1
    /\ MatchingPair(ccfg.ClientCert, ccfg.ClientKey)
    /\ SecureURL(ccfg)
    /\ cverr = Nil
    /\ ccfg.cert = <<"cert1", "key1">>

\* The native constant of an enumerated TLS version.
OwnVersion(t) == IF t = TLSVersion13 THEN VersionTLS13 ELSE VersionTLS12

\* C22: the minimum version of the TLS configuration a client is made with is
\* the native constant of the version the configuration names: tls.VersionTLS12
\* for "1.2", tls.VersionTLS13 for "1.3".
C22_MinVersionIsTheConfiguredOne ==
    cclient.built = "ok" /\ ~cclient.tlsConfig.nil =>
        cclient.tlsConfig.MinVersion = OwnVersion(ccfg.TLSVersion)

\* A TLS configuration is the translation of the TLS fields of configuration
\* c: its version, its curves and its cipher suites, in the order of c.
FollowsConfiguration(tlsConfig, c) ==
    /\ tlsConfig.MinVersion = OwnVersion(c.TLSVersion)
    /\ tlsConfig.CurvePreferences = getCurveList(c.ECDHCurves).ids
    /\ tlsConfig.CipherSuites = getCipherList(c.CipherSuites).ids

\* C23: the TLS configuration a client or a server is made with has the
\* minimum version, the curve preferences and the cipher suites its
\* configuration names, in the configured order.
C23_PolicyFollowsConfiguration ==
    /\ cclient.built = "ok" /\ ~cclient.tlsConfig.nil =>
          FollowsConfiguration(cclient.tlsConfig, ccfg)
    /\ sserver.built = "ok" /\ ~sserver.tlsConfig.nil =>
          FollowsConfiguration(sserver.tlsConfig, scfg)

\* C24: NewClient never panics in a translation, whatever configuration it is
\* given and whether or not the caller validated it first; and Validate
\* accepts a TLS version, a curve name or a cipher suite name exactly when its
\* translation resolves it.
C24_NoPanicInTranslation ==
    /\ cclient.built # "panic"
    /\ TLSVersionValidate(ccfg.TLSVersion)
          <=> getTLSVersion(ccfg.TLSVersion) # Panic
    /\ \A i \in 1..Len(ccfg.ECDHCurves) :
          ECDHCurveValidate(ccfg.ECDHCurves[i])
              <=> getCurveID(ccfg.ECDHCurves[i]) # Panic
    /\ \A i \in 1..Len(ccfg.CipherSuites) :
          CipherSuiteValidate(ccfg.CipherSuites[i])
              <=> getCipher(ccfg.CipherSuites[i]) # Panic
    /\ \A n \in DOMAIN curveToID : ECDHCurveValidate(n)

C24_Witness ==
    /\ cvalidations = 0
    /\ cclient.built = "ok"
    /\ ~cclient.tlsConfig.nil
    /\ cclient.tlsConfig.CurvePreferences = <<"tls.X25519", "tls.CurveP256">>
    /\ Len(cclient.tlsConfig.CipherSuites) = 2

-----------------------------------------------------------------------------
(***************************************************************************)
(* Properties of the lists (specification ListSpec)                        *)
(***************************************************************************)

\* The spellings of one curve and of one cipher suite (part_002:65-72,
\* 216-238): the IANA, the OpenSSL and the GnuTLS name of a suite, the two
\* names of a curve.
CurveSpellings == {{"x25519", "X25519"}, {"secp256r1", "prime256v1"}}

CipherSuiteSpellings ==
    {{"TLS_ECDHE_ECDSA_WITH_AES_128_GCM_SHA256",
      "ECDHE-ECDSA-AES128-GCM-SHA256", "TLS_ECDHE_ECDSA_AES_128_GCM_SHA256"},
     {"TLS_ECDHE_RSA_WITH_AES_128_GCM_SHA256", "ECDHE-RSA-AES128-GCM-SHA256",
      "TLS_ECDHE_RSA_AES_128_GCM_SHA256"},
     {"TLS_ECDHE_ECDSA_WITH_AES_256_GCM_SHA384",
      "ECDHE-ECDSA-AES256-GCM-SHA384", "TLS_ECDHE_ECDSA_AES_256_GCM_SHA384"},
     {"TLS_ECDHE_RSA_WITH_AES_256_GCM_SHA384", "ECDHE-RSA-AES256-GCM-SHA384",
      "TLS_ECDHE_RSA_AES_256_GCM_SHA384"},
     {"TLS_ECDHE_ECDSA_WITH_CHACHA20_POLY1305",
      "ECDHE-ECDSA-CHACHA20-POLY1305", "TLS_ECDHE_ECDSA_CHACHA20_POLY1305"},
     {"TLS_ECDHE_RSA_WITH_CHACHA20_POLY1305", "ECDHE-RSA-CHACHA20-POLY1305",
      "TLS_ECDHE_RSA_CHACHA20_POLY1305"}}

\* Both forms of the names were decoded.
BothDecoded == lfromString.done /\ lfromSequence.done

\* C25: a list decoded from its names joined by colons and the list decoded
\* from the sequence of the same names resolve alike: Validate accepts both
\* or neither, and accepted they give the same native ids in the same order;
\* of one name or more the two lists are the same names; and the spellings of
\* one curve or cipher suite resolve to one id.
C25_StringAndSequenceResolveAlike ==
    /\ BothDecoded =>
          /\ ~lfromString.err /\ ~lfromSequence.err
          /\ Resolved(lkind, lfromString.list)
                = Resolved(lkind, lfromSequence.list)
          /\ lnames # <<>> => lfromString.list = lfromSequence.list
    /\ \A S \in CurveSpellings : \A a, b \in S :
          getCurveID(a) = getCurveID(b) /\ getCurveID(a) # Panic
    /\ \A S \in CipherSuiteSpellings : \A a, b \in S :
          getCipher(a) = getCipher(b) /\ getCipher(a) # Panic

C25_Witness ==
    /\ BothDecoded
    /\ lkind = "ciphers"
    /\ lnames = <<"ECDHE-RSA-AES128-GCM-SHA256", "TLS_AES_256_GCM_SHA384">>
    /\ Resolved(lkind, lfromString.list).valid
    /\ Resolved(lkind, lfromSequence.list).ids
          = <<"tls.TLS_ECDHE_RSA_WITH_AES_128_GCM_SHA256",
              "tls.TLS_AES_256_GCM_SHA384">>

-----------------------------------------------------------------------------
(***************************************************************************)
(* Properties of repeated validation (specification ConfigSpec)            *)
(***************************************************************************)

\* In a history of Validate calls every call that follows a successful one
\* succeeds, leaves the derived fields as that one left them, and loads
\* nothing.
Idempotent(hist) ==
    \A i \in 2..Len(hist) :
        hist[i - 1].err = Nil =>
            /\ hist[i].err = Nil
            /\ hist[i].after = hist[i - 1].after
            /\ hist[i].loads = 0

\* C26: Validate called again on a configuration on which it succeeded
\* succeeds again, leaves the CA pool and the certificate as the first call
\* populated them, and does not load them again.
C26_ValidateIsIdempotent == Idempotent(chist) /\ Idempotent(shist)

\* A call of Validate that returned an error left the derived fields as they
\* were before it.
FailureLeavesDerived(hist) ==
    \A i \in 1..Len(hist) : hist[i].err # Nil => hist[i].after = hist[i].before

\* C30: a Validate that returns an error leaves the derived fields of the
\* configuration (CA pool and certificate) as they were before the call.
C30_FailedValidateSetsNothing ==
    FailureLeavesDerived(chist) /\ FailureLeavesDerived(shist)

-----------------------------------------------------------------------------
(***************************************************************************)
(* Properties of the returns of RunWithLifecycle (specifications Spec and  *)
(* FairSpec)                                                               *)
(***************************************************************************)

\* C27: a run whose net.Listen failed gives no ready notification, and it
\* returns the error of net.Listen, after which it neither holds the guard
\* nor has left its native server on the instance.
C27_BindFailureReturnsToIdle ==
    /\ [](\A c \in Calls :
            ret[c] = ErrListen =>
                /\ running[c] = 0
                /\ Returned(c) => lock # c /\ srv # c)
    /\ \A c \in Calls : (ret[c] = ErrListen) ~> Returned(c)

\* C28: whenever RunWithLifecycle has returned, on whichever path, the
\* returning call does not hold the guard s.lock.
C28_NoReturnHoldsGuard ==
    \A c \in Calls : Returned(c) => lock # c

\* C29: once a run has bound its listener and its lifecycle context is
\* cancelled, the run returns in the end, with nil unless Serve had failed by
\* itself, and its watcher goroutine ends.
C29_CancelEndsRun ==
    \A c \in Calls :
        (Bound(c) /\ ctxDone[c]) ~>
            /\ Returned(c)
            /\ ret[c] = Nil \/ err[c] = ErrServe
            /\ wpc[c] = "done"

=============================================================================
